---- MODULE Spec2Model ----
(***************************************************************************)
(* Model of the pump-signal tracker: the confluence scoring engine         *)
(* (pump_detector.py), the scanning pipeline (market_scanner.py) and the   *)
(* outcome tracker (signal_tracker.py).                                    *)
(*                                                                         *)
(* Number conventions.  TLA+ has integers only, so the floats of the       *)
(* program are kept as exact fixed-point or rational values:               *)
(*   - percentages of a snapshot (price_change_*, oi_change_pct, the       *)
(*     long/short and taker ratios) are in tenths of a percent;            *)
(*   - funding-rate values are in hundredths;                              *)
(*   - a signal strength is in tenths (95 is 950);                         *)
(*   - a weight is in twentieths (1.3 is 26, 1.0 is 20);                   *)
(*   - a combined score is the rational num/den (Score records);           *)
(*   - a percent change of an outcome record is the rational num/den;      *)
(*   - the clock is in seconds.                                            *)
(* An optional value (Optional[...]) is a sequence: <<>> is None and <<v>> *)
(* is the value v.  Arithmetic is exact where Python rounds to a double.   *)
(***************************************************************************)
EXTENDS Integers, Sequences, FiniteSets, TLC

VARIABLES
    clock,            \* datetime.now(), seconds
    \* ---- scoring engine (PumpDetector)
    min_score,        \* PumpDetector.min_score
    signals_history,  \* PumpDetector.signals_history
    coin_data,        \* the snapshot handed to analyze_coin
    results,          \* what the calls of analyze_coin on coin_data returned, in order
    sig_list,         \* a signal list handed to calculate_confluence_score
    confluence,       \* what calculate_confluence_score returned for sig_list
    \* ---- scanning pipeline (MarketScanner)
    all_symbols,      \* MarketScanner.all_symbols
    last_symbol_refresh, \* MarketScanner.last_symbol_refresh
    watchlist,        \* MarketScanner.watchlist: symbol -> last signal time
    scan,             \* the scan loop: its position and the locals of scan_market
    \* ---- outcome tracker (SignalTracker)
    signals_db,       \* SignalTracker.signals_db: id -> record
    tracker,          \* the tracker loop: its position, its locals, active_signals
    storage,          \* signals_history.json and the threads that write it
    \* ---- notifier (TelegramNotifier)
    sent_signals,     \* TelegramNotifier.sent_signals: symbol -> time of the last alert
    pool,             \* scan_symbols_batch: the futures of its executor, its signals list
    bot,              \* PumpDetectorBot: its configuration, its components, where run() is
    batch,            \* the arguments of the last notify_signals_batch call
    delivered         \* the alerts sent so far, in the order they went out

vars == <<clock, min_score, signals_history, coin_data, results, sig_list,
          confluence, all_symbols, last_symbol_refresh, watchlist, scan,
          signals_db, tracker, storage, pool, bot, sent_signals, batch, delivered>>

None == <<>>
Some(v) == <<v>>

Abs(x) == IF x < 0 THEN -x ELSE x
Min(a, b) == IF a <= b THEN a ELSE b
Max(a, b) == IF a >= b THEN a ELSE b

RECURSIVE SumSeq(_)
SumSeq(s) == IF s = <<>> THEN 0 ELSE s[1] + SumSeq(Tail(s))

\* round(num / den, 2) in hundredths, for num >= 0 and den > 0
Round2(num, den) == (num * 200 + den) \div (2 * den)

(***************************************************************************)
(* PumpDetector: thresholds and detectors                                  *)
(***************************************************************************)
thresholds ==
    [ volume_spike_multiplier       |-> 5,
      volume_extreme_multiplier     |-> 8,
      price_momentum_5m             |-> 30,      \* 3.0 %
      price_momentum_15m            |-> 70,      \* 7.0 %
      order_book_imbalance          |-> 3,
      order_book_extreme            |-> 5,
      large_order_threshold         |-> 200000,
      funding_rate_spike            |-> 8,       \* 0.08
      open_interest_change          |-> 200,     \* 20.0 %
      taker_buy_aggressive          |-> 600,     \* 60 %
      taker_buy_extreme             |-> 700,     \* 70 %
      long_short_extreme            |-> 700,     \* 70 %
      liquidation_cascade_threshold |-> 1000000 ]

MarketSignal(type, strength, now, details) ==
    [ coin |-> "", signal_type |-> type, strength |-> strength,
      timestamp |-> now, details |-> details ]

\* analyze_volume_spike with the acceleration bonus given from a ratio of 2.0 on
analyze_volume_spike_accel_ge(current_volume, avg_volume, volume_1h_ago, now) ==
    IF avg_volume = 0 THEN None
    ELSE
      LET accel == current_volume >= 2 * Max(volume_1h_ago, 1)
          bonus(s) == IF accel THEN Min(1000, s + 100) ELSE s
          details == << <<"volume_ratio", Round2(current_volume, avg_volume)>>,
                        <<"volume_acceleration",
                          Round2(current_volume, Max(volume_1h_ago, 1))>>,
                        <<"current_volume", current_volume>>,
                        <<"avg_volume", avg_volume>> >>
      IN  IF current_volume >= thresholds.volume_extreme_multiplier * avg_volume
            THEN Some(MarketSignal("EXTREME_VOLUME_SPIKE", bonus(950), now, details))
          ELSE IF current_volume >= thresholds.volume_spike_multiplier * avg_volume
            THEN Some(MarketSignal("VOLUME_SPIKE", bonus(750), now, details))
          ELSE IF current_volume >= 2 * avg_volume
            THEN Some(MarketSignal("ELEVATED_VOLUME", bonus(500), now, details))
          ELSE None

\* analyze_volume_spike with the acceleration bonus added without the cap at 100
analyze_volume_spike_bonus_uncapped(current_volume, avg_volume, volume_1h_ago, now) ==
    IF avg_volume = 0 THEN None
    ELSE
      LET accel == current_volume > 2 * Max(volume_1h_ago, 1)
          bonus(s) == IF accel THEN s + 100 ELSE s
          details == << <<"volume_ratio", Round2(current_volume, avg_volume)>>,
                        <<"volume_acceleration",
                          Round2(current_volume, Max(volume_1h_ago, 1))>>,
                        <<"current_volume", current_volume>>,
                        <<"avg_volume", avg_volume>> >>
      IN  IF current_volume >= thresholds.volume_extreme_multiplier * avg_volume
            THEN Some(MarketSignal("EXTREME_VOLUME_SPIKE", bonus(950), now, details))
          ELSE IF current_volume >= thresholds.volume_spike_multiplier * avg_volume
            THEN Some(MarketSignal("VOLUME_SPIKE", bonus(750), now, details))
          ELSE IF current_volume >= 2 * avg_volume
            THEN Some(MarketSignal("ELEVATED_VOLUME", bonus(500), now, details))
          ELSE None

\* analyze_volume_spike: None or one signal
analyze_volume_spike(current_volume, avg_volume, volume_1h_ago, now) ==
    IF avg_volume = 0 THEN None
    ELSE
      LET accel == current_volume > 2 * Max(volume_1h_ago, 1)
          bonus(s) == IF accel THEN Min(1000, s + 100) ELSE s
          details == << <<"volume_ratio", Round2(current_volume, avg_volume)>>,
                        <<"volume_acceleration",
                          Round2(current_volume, Max(volume_1h_ago, 1))>>,
                        <<"current_volume", current_volume>>,
                        <<"avg_volume", avg_volume>> >>
      IN  IF current_volume >= thresholds.volume_extreme_multiplier * avg_volume
            THEN Some(MarketSignal("EXTREME_VOLUME_SPIKE", bonus(950), now, details))
          ELSE IF current_volume >= thresholds.volume_spike_multiplier * avg_volume
            THEN Some(MarketSignal("VOLUME_SPIKE", bonus(750), now, details))
          ELSE IF current_volume >= 2 * avg_volume
            THEN Some(MarketSignal("ELEVATED_VOLUME", bonus(500), now, details))
          ELSE None

\* analyze_price_momentum: a list of signals
analyze_price_momentum(change_5m, change_15m, change_1h, now) ==
    (IF Abs(change_5m) >= thresholds.price_momentum_5m
       THEN << MarketSignal("STRONG_5M_MOMENTUM", Min(1000, Abs(change_5m) * 15), now,
                            << <<"change_5m", change_5m>> >>) >>
       ELSE <<>>)
    \o
    (IF Abs(change_15m) >= thresholds.price_momentum_15m
       THEN << MarketSignal("STRONG_15M_MOMENTUM", Min(1000, Abs(change_15m) * 8), now,
                            << <<"change_15m", change_15m>> >>) >>
       ELSE <<>>)
    \o
    (IF Abs(change_1h) >= 80
       THEN << MarketSignal("STRONG_1H_MOMENTUM", Min(1000, Abs(change_1h) * 5), now,
                            << <<"change_1h", change_1h>> >>) >>
       ELSE <<>>)
    \o
    \* change_5m / 5 > change_15m / 15
    (IF change_5m > 0 /\ change_15m > 0 /\ change_1h > 0 /\ 3 * change_5m > change_15m
       THEN << MarketSignal("MOMENTUM_ACCELERATION", 850, now,
                            << <<"acceleration_positive", 1>> >>) >>
       ELSE <<>>)

\* analyze_order_book: a list of signals
analyze_order_book(bid_volume, ask_volume, large_bids, large_asks, now) ==
    IF ask_volume = 0 THEN <<>>
    ELSE
      (IF bid_volume >= thresholds.order_book_extreme * ask_volume
         THEN << MarketSignal("EXTREME_BUY_PRESSURE", 900, now,
                   << <<"bid_ask_ratio", Round2(bid_volume, ask_volume)>>,
                      <<"bid_volume", bid_volume>>, <<"ask_volume", ask_volume>> >>) >>
       ELSE IF bid_volume >= thresholds.order_book_imbalance * ask_volume
         THEN << MarketSignal("STRONG_BUY_PRESSURE", 700, now,
                   << <<"bid_ask_ratio", Round2(bid_volume, ask_volume)>> >>) >>
       ELSE <<>>)
      \o
      \* strength (large_bids / large_order_threshold) * 30, in tenths
      (IF large_bids > thresholds.large_order_threshold
         THEN << MarketSignal("LARGE_BUY_ORDERS",
                   Min(1000, (large_bids * 3) \div (thresholds.large_order_threshold \div 100)),
                   now, << <<"large_bids_usd", large_bids>> >>) >>
         ELSE <<>>)

\* analyze_funding_rate: None or one signal
analyze_funding_rate(current_rate, avg_rate, rate_change, now) ==
    IF Abs(rate_change) >= thresholds.funding_rate_spike
      THEN Some(MarketSignal("FUNDING_RATE_SPIKE", Min(1000, Abs(rate_change) * 50), now,
                  << <<"current_rate", current_rate>>, <<"rate_change", rate_change>>,
                     <<IF rate_change > 0 THEN "direction_long" ELSE "direction_short", 1>> >>))
      ELSE None

\* analyze_open_interest: None or one signal
analyze_open_interest(oi_change_pct, oi_volume_ratio, price_change, now) ==
    IF Abs(oi_change_pct) < 100 THEN None
    ELSE
      LET details == << <<"oi_change_pct", oi_change_pct>>,
                        <<"price_change", price_change>>,
                        <<"oi_volume_ratio", oi_volume_ratio>> >>
      IN  IF price_change > 10 /\ oi_change_pct >= thresholds.open_interest_change
            THEN Some(MarketSignal("LONG_BUILDUP",
                        Min(950, oi_change_pct * 3 + Abs(price_change) * 2), now, details))
          ELSE IF price_change > 20 /\ oi_change_pct < -100
            THEN Some(MarketSignal("SHORT_COVERING",
                        Min(900, Abs(oi_change_pct) * 4 + Abs(price_change) * 3), now, details))
          ELSE IF price_change < -10 /\ oi_change_pct >= 150
            THEN Some(MarketSignal("SHORT_BUILDUP", 300, now, details))
          ELSE IF price_change < -20 /\ oi_change_pct < -100
            THEN Some(MarketSignal("LONG_UNWINDING", 250, now, details))
          ELSE IF oi_change_pct >= thresholds.open_interest_change
            THEN Some(MarketSignal("OPEN_INTEREST_SURGE",
                        Min(700, (oi_change_pct * 5) \div 2), now, details))
          ELSE None

\* analyze_taker_buy_sell: None or one signal
analyze_taker_buy_sell(taker_buy_ratio, now) ==
    LET details == << <<"taker_buy_ratio", taker_buy_ratio>> >>
    IN  IF taker_buy_ratio >= thresholds.taker_buy_extreme
          THEN Some(MarketSignal("EXTREME_TAKER_BUYING", 950, now, details))
        ELSE IF taker_buy_ratio >= thresholds.taker_buy_aggressive
          THEN Some(MarketSignal("AGGRESSIVE_TAKER_BUYING", 750, now, details))
        ELSE IF taker_buy_ratio <= 1000 - thresholds.taker_buy_extreme
          THEN Some(MarketSignal("EXTREME_TAKER_SELLING", 200, now, details))
        ELSE None

\* analyze_long_short_ratio: None or one signal
analyze_long_short_ratio(long_ratio, short_ratio, price_change, now) ==
    IF short_ratio >= thresholds.long_short_extreme /\ price_change > 10
      THEN Some(MarketSignal("SHORT_SQUEEZE_SETUP", 900, now,
                  << <<"short_ratio", short_ratio>>, <<"long_ratio", long_ratio>> >>))
    ELSE IF short_ratio > 600
      THEN Some(MarketSignal("HIGH_SHORT_INTEREST", 700, now,
                  << <<"short_ratio", short_ratio>> >>))
    ELSE IF long_ratio >= thresholds.long_short_extreme
      THEN Some(MarketSignal("OVERCROWDED_LONGS", 300, now,
                  << <<"long_ratio", long_ratio>> >>))
    ELSE None

\* analyze_liquidation_zones, for current_price > 0 (current_price = 0 raises
\* ZeroDivisionError, see analyze_coin): None or one signal.
\* dist_to_short_liq < 2.0 is (short_liq_price - current_price) * 100 < 2 * current_price
analyze_liquidation_zones(current_price, long_liq_price, short_liq_price, est_long_liq, est_short_liq, price_change, now) ==
    IF /\ (short_liq_price - current_price) * 100 < 2 * current_price
       /\ price_change > 15
       /\ est_short_liq >= thresholds.liquidation_cascade_threshold
      THEN Some(MarketSignal("SHORT_LIQUIDATION_CASCADE", 850, now,
                  << <<"distance_to_zone",
                       ((short_liq_price - current_price) * 10000) \div current_price>>,
                     <<"liquidation_volume", est_short_liq>> >>))
    ELSE IF est_short_liq >= thresholds.liquidation_cascade_threshold
      THEN Some(MarketSignal("LARGE_LIQUIDATION_ZONE", 600, now,
                  << <<"short_liq_zone", short_liq_price>>,
                     <<"liquidation_volume", est_short_liq>> >>))
    ELSE None

\* 100 * variance of ten values: 10 * sum(x^2) - sum(x)^2  (np.std squared, times 100)
Var100(s) == 10 * SumSeq([i \in 1..Len(s) |-> s[i] * s[i]]) - SumSeq(s) * SumSeq(s)

\* detect_breakout_pattern: None or one signal.  volumes has the length of prices
\* (both lists are built from the same klines).  np.mean of each half is compared
\* as the sum over its ten values; the detail 'volatility_increase' (a ratio of
\* square roots) is left out of details.
detect_breakout_pattern(prices, volumes, now) ==
    IF Len(prices) < 20 THEN None
    ELSE
      LET n == Len(prices)
          recent_prices == SubSeq(prices, n - 19, n)
          recent_volumes == SubSeq(volumes, n - 19, n)
          first_var == Var100(SubSeq(recent_prices, 1, 10))
          second_var == Var100(SubSeq(recent_prices, 11, 20))
          first_vol == SumSeq(SubSeq(recent_volumes, 1, 10))
          second_vol == SumSeq(SubSeq(recent_volumes, 11, 20))
      IN  \* second_std / first_std > 2.0  and  second_vol / max(first_vol, 1) > 1.5
          IF /\ first_var > 0
             /\ second_var > 4 * first_var
             /\ 2 * second_vol > 3 * Max(first_vol, 10)
            THEN Some(MarketSignal("BREAKOUT_PATTERN", 800, now,
                        << <<"volume_increase", Round2(second_vol, Max(first_vol, 10))>> >>))
            ELSE None

(***************************************************************************)
(* PumpDetector: confluence score                                          *)
(***************************************************************************)
\* A score is the rational num / den, den > 0.
Score(num, den) == [num |-> num, den |-> den]
ScoreGE(a, b) == a.num * b.den >= b.num * a.den
ScoreAtLeast(a, x) == a.num >= x * a.den
ScoreBelow(a, x) == a.num < x * a.den

\* signal_weights.get(signal_type, 1.0), in twentieths
signal_weights(signal_type) ==
    CASE signal_type = "EXTREME_VOLUME_SPIKE"      -> 26
      [] signal_type = "VOLUME_SPIKE"              -> 24
      [] signal_type = "EXTREME_BUY_PRESSURE"      -> 24
      [] signal_type = "SHORT_COVERING"            -> 25
      [] signal_type = "LONG_BUILDUP"              -> 24
      [] signal_type = "EXTREME_TAKER_BUYING"      -> 25
      [] signal_type = "AGGRESSIVE_TAKER_BUYING"   -> 23
      [] signal_type = "SHORT_SQUEEZE_SETUP"       -> 26
      [] signal_type = "SHORT_LIQUIDATION_CASCADE" -> 27
      [] signal_type = "HIGH_SHORT_INTEREST"       -> 22
      [] signal_type = "LARGE_LIQUIDATION_ZONE"    -> 22
      [] signal_type = "MOMENTUM_ACCELERATION"     -> 23
      [] signal_type = "STRONG_5M_MOMENTUM"        -> 22
      [] signal_type = "BREAKOUT_PATTERN"          -> 23
      [] signal_type = "OPEN_INTEREST_SURGE"       -> 21
      [] signal_type = "LARGE_BUY_ORDERS"          -> 21
      [] signal_type = "SHORT_BUILDUP"             -> 10
      [] signal_type = "LONG_UNWINDING"            -> 10
      [] signal_type = "EXTREME_TAKER_SELLING"     -> 8
      [] signal_type = "OVERCROWDED_LONGS"         -> 12
      [] OTHER                                     -> 20

\* the confidence level of a final score
confidence_level(final_score) ==
    IF ScoreAtLeast(final_score, 85) THEN "VERY_HIGH"
    ELSE IF ScoreAtLeast(final_score, 75) THEN "HIGH"
    ELSE IF ScoreAtLeast(final_score, 65) THEN "MEDIUM"
    ELSE "LOW"

\* calculate_confluence_score without the clamp of the final score at 100
calculate_confluence_score_no_clamp(signals) ==
    IF signals = <<>> THEN [score |-> Score(0, 1), confidence |-> "NONE"]
    ELSE
      LET n == Len(signals)
          total_score == SumSeq([i \in 1..n |->
                            signals[i].strength * signal_weights(signals[i].signal_type)])
          confluence_bonus == Min(20, n * 3)
          final_score == Score(total_score + confluence_bonus * 200 * n, 200 * n)
      IN  [score |-> final_score, confidence |-> confidence_level(final_score)]

\* calculate_confluence_score with the bonus 3 per signal and no cap at 20
calculate_confluence_score_bonus_uncapped(signals) ==
    IF signals = <<>> THEN [score |-> Score(0, 1), confidence |-> "NONE"]
    ELSE
      LET n == Len(signals)
          total_score == SumSeq([i \in 1..n |->
                            signals[i].strength * signal_weights(signals[i].signal_type)])
          confluence_bonus == n * 3
          final_score == Score(Min(100 * 200 * n, total_score + confluence_bonus * 200 * n),
                               200 * n)
      IN  [score |-> final_score, confidence |-> confidence_level(final_score)]

\* calculate_confluence_score: (final_score, confidence).
\* strength (tenths) * weight (twentieths) is in 1/200; the score has den = 200 * n.
calculate_confluence_score(signals) ==
    IF signals = <<>> THEN [score |-> Score(0, 1), confidence |-> "NONE"]
    ELSE
      LET n == Len(signals)
          total_score == SumSeq([i \in 1..n |->
                            signals[i].strength * signal_weights(signals[i].signal_type)])
          confluence_bonus == Min(20, n * 3)
          final_score == Score(Min(100 * 200 * n, total_score + confluence_bonus * 200 * n),
                               200 * n)
      IN  [score |-> final_score, confidence |-> confidence_level(final_score)]

(***************************************************************************)
(* PumpDetector.analyze_coin                                               *)
(***************************************************************************)
WithCoin(signals, coin) == [i \in 1..Len(signals) |-> [signals[i] EXCEPT !.coin = coin]]

\* the nine detectors of analyze_coin, in its order; every signal gets the coin
detect_signals(cd, now) ==
    WithCoin(
        analyze_volume_spike(cd.volume_current, cd.volume_avg, cd.volume_1h_ago, now)
        \o analyze_price_momentum(cd.price_change_5m, cd.price_change_15m,
                                  cd.price_change_1h, now)
        \o analyze_order_book(cd.bid_volume, cd.ask_volume, cd.large_bids,
                              cd.large_asks, now)
        \o analyze_funding_rate(cd.funding_rate, cd.funding_rate_avg,
                                cd.funding_rate_change, now)
        \o analyze_open_interest(cd.oi_change_pct, cd.oi_volume_ratio,
                                 cd.price_change_1h, now)
        \o analyze_taker_buy_sell(cd.taker_buy_ratio, now)
        \o analyze_long_short_ratio(cd.long_ratio, cd.short_ratio, cd.price_change_1h, now)
        \o analyze_liquidation_zones(cd.price, cd.long_liq_price, cd.short_liq_price,
                                     cd.est_long_liq_volume, cd.est_short_liq_volume,
                                     cd.price_change_1h, now)
        \o detect_breakout_pattern(cd.prices_history, cd.volumes_history, now),
        cd.symbol)

PumpSignal(cd, signals, sc, now) ==
    [ coin |-> cd.symbol, score |-> sc.score, confidence |-> sc.confidence,
      timeframe |-> "INTRADAY", signals |-> signals, price |-> cd.price,
      volume_24h |-> cd.volume_24h, price_change_1h |-> cd.price_change_1h,
      price_change_5m |-> cd.price_change_5m, timestamp |-> now ]

\* analyze_coin without the test of the score against min_score
analyze_coin_no_min_test(cd, minimum, now) ==
    IF cd.price = 0 THEN None
    ELSE
      LET signals == detect_signals(cd, now)
          sc == calculate_confluence_score(signals)
      IN  IF signals = <<>> THEN None
          ELSE Some(PumpSignal(cd, signals, sc, now))

\* analyze_coin without the test for an empty signal list
analyze_coin_no_empty_test(cd, minimum, now) ==
    IF cd.price = 0 THEN None
    ELSE
      LET signals == detect_signals(cd, now)
          sc == calculate_confluence_score(signals)
      IN  IF ScoreBelow(sc.score, minimum) THEN None
          ELSE Some(PumpSignal(cd, signals, sc, now))

\* analyze_coin: None or one PumpSignal.  With price = 0 the division in
\* analyze_liquidation_zones raises ZeroDivisionError, which the except
\* clause turns into None.
analyze_coin(cd, minimum, now) ==
    IF cd.price = 0 THEN None
    ELSE
      LET signals == detect_signals(cd, now)
          sc == calculate_confluence_score(signals)
      IN  IF signals = <<>> THEN None
          ELSE IF ScoreBelow(sc.score, minimum) THEN None
          ELSE Some(PumpSignal(cd, signals, sc, now))

(***************************************************************************)
(* Values the variables of a component keep while another one is explored  *)
(***************************************************************************)
EmptyMap == [x \in {} |-> 0]

Steady20 == [i \in 1..20 |-> IF i % 2 = 1 THEN 100 ELSE 101]
CalmThenWild == [i \in 1..20 |-> IF i % 2 = 1 THEN 100 ELSE IF i <= 10 THEN 101 ELSE 110]
FlatVolumes == [i \in 1..20 |-> 100]
RisingVolumes == [i \in 1..20 |-> IF i <= 10 THEN 100 ELSE 200]

\* A snapshot as get_comprehensive_data builds it, with no detector firing.
NeutralData(symbol) ==
    [ symbol |-> symbol, price |-> 100, volume_24h |-> 5000000,
      price_change_5m |-> 0, price_change_15m |-> 0, price_change_1h |-> 0,
      volume_current |-> 100, volume_avg |-> 100, volume_1h_ago |-> 300,
      bid_volume |-> 100, ask_volume |-> 100, large_bids |-> 0, large_asks |-> 0,
      funding_rate |-> 0, funding_rate_avg |-> 0, funding_rate_change |-> 0,
      oi_change_pct |-> 0, oi_volume_ratio |-> 0,
      taker_buy_ratio |-> 500, long_ratio |-> 500, short_ratio |-> 500,
      long_liq_price |-> 97, short_liq_price |-> 103,
      est_long_liq_volume |-> 0, est_short_liq_volume |-> 0,
      prices_history |-> Steady20, volumes_history |-> FlatVolumes ]

\* The values a field of the snapshot moves to.
FieldValues(f) ==
    CASE f = "price"                -> {0}
      [] f = "price_change_5m"      -> {-40, 40}
      [] f = "price_change_15m"     -> {70, 130}
      [] f = "price_change_1h"      -> {-30, 80}
      [] f = "volume_current"       -> {600, 800}
      [] f = "volume_avg"           -> {0}
      [] f = "volume_1h_ago"        -> {0}
      [] f = "bid_volume"           -> {500}
      [] f = "ask_volume"           -> {0}
      [] f = "large_bids"           -> {1000000}
      [] f = "funding_rate_change"  -> {30}
      [] f = "oi_change_pct"        -> {-150, 200}
      [] f = "taker_buy_ratio"      -> {300, 700}
      [] f = "long_ratio"           -> {700}
      [] f = "short_ratio"          -> {700}
      [] f = "short_liq_price"      -> {101}
      [] f = "est_short_liq_volume" -> {1000000}
      [] f = "prices_history"       -> {CalmThenWild, <<100, 101>>}
      [] f = "volumes_history"      -> {RisingVolumes}
      [] OTHER                      -> {}

MaxChanged == 2      \* fields in which a snapshot differs from its base
MaxScoreClock == 1   \* clock readings between two scoring calls
MinScores == {0, 80, 85}

Neutral == NeutralData("BTCUSDT")
\* the fields in which a snapshot differs from another
Changed(cd, base) == {f \in DOMAIN cd \ {"symbol"} : cd[f] # base[f]}

\* The snapshot of the worked example: current volume 600, trailing average
\* 100, price_change_5m 4 %, every other field neutral.
ExampleData == [Neutral EXCEPT !.volume_current = 600, !.price_change_5m = 40]

EngineIdle ==
    /\ min_score = 80
    /\ signals_history = EmptyMap
    /\ coin_data = NeutralData("BTCUSDT")
    /\ results = <<>>
ConfluenceIdle == sig_list = <<>> /\ confluence = <<>>
\* the scan loop before its first cycle; the locals of scan_market are unset
ScanIdle ==
    [ pc |-> "idle", symbols |-> None, all_tickers |-> <<>>, filtered_symbols |-> <<>>,
      scanned |-> {}, coin_data |-> EmptyMap, pump_signals |-> <<>>, decided |-> EmptyMap ]
ScannerIdle ==
    /\ all_symbols = <<>>
    /\ last_symbol_refresh = None
    /\ watchlist = EmptyMap
    /\ scan = ScanIdle
\* the notifier before its first message
\* no executor: scan_symbols_batch is not running
PoolIdle == [futures |-> EmptyMap, signals |-> <<>>]
\* the bot once initialize() has returned True and run() is in its scan loop
BotStarted ==
    [ config |-> [telegram_bot_token |-> "token", telegram_chat_id |-> "chat"],
      pc |-> "scanning", scanner |-> TRUE, notifier |-> TRUE, tracker |-> TRUE,
      tracker_thread |-> TRUE, startup_message |-> "sent", running |-> TRUE ]
\* no call of notify_signals_batch yet
BatchIdle == [signals |-> <<>>, max_notify |-> 0]
NotifierIdle == sent_signals = EmptyMap /\ batch = BatchIdle /\ delivered = <<>>
\* the tracker loop before its first iteration. threads holds the position of
\* every Thread start_background_tracking created, tracker_thread the index of
\* the one self.tracker_thread refers to, last_call the call that returned last
\* ("stopping": stop_background_tracking is in its join, until join_until)
TrackerStart ==
    [ pc |-> "wake", todo |-> <<>>, signals_to_remove |-> {}, active_signals |-> {},
      tracking_enabled |-> TRUE, threads |-> <<>>, tracker_thread |-> None,
      last_call |-> "none", join_until |-> None ]
\* the storage file: absent, empty (opened for writing, nothing written yet),
\* json (holding a store) or corrupt
StorageFile(kind, data) == [kind |-> kind, data |-> data]
Threads == {"main", "tracker"}
\* no storage file, no thread inside an operation on the store; completed is
\* the store as of the last moment no operation was under way; save_error is
\* whether the last run of _save_signals logged "Error saving signals"
StorageStart ==
    [ file |-> StorageFile("absent", EmptyMap),
      th |-> [t \in Threads |-> [pc |-> "idle", signal_id |-> None, buf |-> EmptyMap]],
      completed |-> EmptyMap, save_error |-> FALSE ]
TrackerIdle ==
    /\ signals_db = EmptyMap
    /\ tracker = TrackerStart
    /\ storage = StorageStart

engineVars == <<min_score, signals_history, coin_data, results>>
confluenceVars == <<sig_list, confluence>>
scannerVars == <<all_symbols, last_symbol_refresh, watchlist, scan>>
notifierVars == <<sent_signals, batch, delivered>>
trackerVars == <<signals_db, tracker, storage>>

(***************************************************************************)
(* Scoring engine: analyze_coin called on snapshots                        *)
(***************************************************************************)
ScoreInit ==
    /\ clock = 0
    /\ bot = BotStarted
    /\ pool = PoolIdle
    /\ min_score \in MinScores
    /\ signals_history = EmptyMap
    /\ coin_data = Neutral
    /\ results = <<>>
    /\ ConfluenceIdle /\ ScannerIdle /\ NotifierIdle /\ TrackerIdle

\* the market moves: one field of the snapshot takes another value; a snapshot
\* differs in at most MaxChanged fields from the neutral one or from the example
GetComprehensiveData ==
    /\ \E f \in DOMAIN coin_data \ {"symbol"} : \E v \in FieldValues(f) \cup {Neutral[f]} :
          /\ coin_data[f] # v
          /\ \E base \in {Neutral, ExampleData} :
                Cardinality(Changed([coin_data EXCEPT ![f] = v], base)) <= MaxChanged
          /\ coin_data' = [coin_data EXCEPT ![f] = v]
    /\ results' = <<>>
    /\ UNCHANGED <<pool, bot, clock, min_score, signals_history, confluenceVars, scannerVars,
                   notifierVars, trackerVars>>

\* analyze_coin that keeps the time of the call in signals_history
AnalyzeCoinTracking ==
    /\ Len(results) < 2
    /\ results' = Append(results, analyze_coin(coin_data, min_score, clock))
    /\ signals_history' = [s \in {coin_data.symbol} |-> clock]
    /\ UNCHANGED <<pool, bot, clock, min_score, coin_data, confluenceVars,
                   scannerVars, notifierVars, trackerVars>>

\* one call of detector.analyze_coin(coin_data)
AnalyzeCoin ==
    /\ Len(results) < 2
    /\ results' = Append(results, analyze_coin(coin_data, min_score, clock))
    /\ UNCHANGED <<pool, bot, clock, min_score, signals_history, coin_data, confluenceVars,
                   scannerVars, notifierVars, trackerVars>>

ScoreTick ==
    /\ clock < MaxScoreClock
    /\ clock' = clock + 1
    /\ UNCHANGED <<pool, bot, engineVars, confluenceVars, scannerVars, notifierVars, trackerVars>>

ScoreNext == GetComprehensiveData \/ AnalyzeCoin \/ ScoreTick
SpecScore == ScoreInit /\ [][ScoreNext]_vars

(***************************************************************************)
(* calculate_confluence_score called on signal lists                       *)
(***************************************************************************)
MaxSignals == 3      \* length of a signal list
SignalKinds == {"EXTREME_TAKER_SELLING", "ELEVATED_VOLUME", "SHORT_LIQUIDATION_CASCADE"}
SignalStrengths == {620, 1000}

ConfluenceInit ==
    /\ clock = 0
    /\ bot = BotStarted
    /\ pool = PoolIdle
    /\ EngineIdle /\ ConfluenceIdle /\ ScannerIdle /\ NotifierIdle /\ TrackerIdle

\* the caller builds its list: one more signal of some kind and strength
AddSignal ==
    /\ Len(sig_list) < MaxSignals
    /\ \E k \in SignalKinds, st \in SignalStrengths :
          sig_list' = Append(sig_list, [MarketSignal(k, st, clock, <<>>) EXCEPT !.coin = "BTCUSDT"])
    /\ confluence' = <<>>
    /\ UNCHANGED <<pool, bot, clock, engineVars, scannerVars, notifierVars, trackerVars>>

ClearSignals ==
    /\ sig_list # <<>>
    /\ sig_list' = <<>>
    /\ confluence' = <<>>
    /\ UNCHANGED <<pool, bot, clock, engineVars, scannerVars, notifierVars, trackerVars>>

\* one call of calculate_confluence_score(sig_list)
CalculateConfluence ==
    /\ confluence = <<>>
    /\ confluence' = Some(calculate_confluence_score(sig_list))
    /\ UNCHANGED <<pool, bot, clock, engineVars, sig_list, scannerVars, notifierVars, trackerVars>>

ConfluenceNext == AddSignal \/ ClearSignals \/ CalculateConfluence
SpecConfluence == ConfluenceInit /\ [][ConfluenceNext]_vars

\* every signal list of at most n signals
RECURSIVE SignalLists(_)
SignalLists(n) ==
    IF n = 0 THEN {<<>>}
    ELSE LET shorter == SignalLists(n - 1)
         IN  shorter \cup
             {Append(l, [MarketSignal(k, st, 0, <<>>) EXCEPT !.coin = "BTCUSDT"]) :
                 l \in {x \in shorter : Len(x) = n - 1}, k \in SignalKinds, st \in SignalStrengths}

TierRank(c) ==
    CASE c = "NONE" -> 0 [] c = "LOW" -> 1 [] c = "MEDIUM" -> 2
      [] c = "HIGH" -> 3 [] c = "VERY_HIGH" -> 4 [] OTHER -> -1

ScoreInRange(r) == r.score.num >= 0 /\ r.score.num <= 100 * r.score.den
\* the result with the strictly higher score never has the lower tier
TierMonotonic(a, b) ==
    (a.score.num * b.score.den > b.score.num * a.score.den)
        => TierRank(a.confidence) >= TierRank(b.confidence)

\* C5 as claimed: for every signal list, the empty one included, the score
\* is within [0, 100], the tier is one of LOW, MEDIUM, HIGH, VERY_HIGH, and
\* the tier is monotonic in the score.
Cex_C5_FourTiersForEveryList ==
    confluence # <<>> =>
        /\ ScoreInRange(confluence[1])
        /\ confluence[1].confidence \in {"LOW", "MEDIUM", "HIGH", "VERY_HIGH"}
        /\ \A l \in SignalLists(MaxSignals) :
              LET other == calculate_confluence_score(l)
              IN  TierMonotonic(confluence[1], other) /\ TierMonotonic(other, confluence[1])

\* C5, amended: for every signal list the score is within [0, 100]; for a
\* non-empty list the tier is one of LOW, MEDIUM, HIGH, VERY_HIGH, for the
\* empty list the result is score 0 with the tier "NONE"; and with NONE
\* ranked below LOW the tier is monotonic in the score.
Thm_C5_ScoreRangeAndTiers ==
    confluence # <<>> =>
        /\ ScoreInRange(confluence[1])
        /\ sig_list # <<>> =>
              confluence[1].confidence \in {"LOW", "MEDIUM", "HIGH", "VERY_HIGH"}
        /\ sig_list = <<>> =>
              confluence[1] = [score |-> Score(0, 1), confidence |-> "NONE"]
        /\ \A l \in SignalLists(MaxSignals) :
              LET other == calculate_confluence_score(l)
              IN  TierMonotonic(confluence[1], other) /\ TierMonotonic(other, confluence[1])

Wit_C5_EveryTier ==
    /\ confluence # <<>>
    /\ Len(sig_list) = 2
    /\ confluence[1].confidence = "HIGH"
    /\ \E l \in SignalLists(MaxSignals) :
          calculate_confluence_score(l).confidence = "VERY_HIGH"
    /\ \E l \in SignalLists(MaxSignals) :
          calculate_confluence_score(l).confidence = "LOW"

(***************************************************************************)
(* MarketScanner                                                           *)
(***************************************************************************)
scan_interval == 90
symbol_refresh_interval == 3600
watchlist_timeout == 1800
\* filter_thresholds; a 24h change is in tenths of a percent
min_volume_24h == 2000000
max_price == 100000

Range(f) == {f[x] : x \in DOMAIN f}

\* the test of quick_filter without its minimum-volume test
passes_quick_filter_any_volume(ticker, wl) ==
    /\ ~(ticker.price > max_price)
    /\ \/ Abs(ticker.price_change_24h) > 80
       \/ ticker.volume_24h > min_volume_24h * 2 /\ Abs(ticker.price_change_24h) > 30
       \/ ticker.symbol \in DOMAIN wl
\* the test of quick_filter on one ticker, wl the watchlist at that time
passes_quick_filter(ticker, wl) ==
    /\ ~(ticker.volume_24h < min_volume_24h)
    /\ ~(ticker.price > max_price)
    /\ \/ Abs(ticker.price_change_24h) > 80
       \/ ticker.volume_24h > min_volume_24h * 2 /\ Abs(ticker.price_change_24h) > 30
       \/ ticker.symbol \in DOMAIN wl

\* quick_filter: the symbols of the tickers that pass, in the order of the tickers
quick_filter(tickers, wl) ==
    LET Keep(t) == passes_quick_filter(t, wl)
        kept == SelectSeq(tickers, Keep)
    IN  [i \in 1..Len(kept) |-> kept[i].symbol]

\* clean_watchlist at time now
clean_watchlist(wl, now) ==
    [s \in {x \in DOMAIN wl : ~(now - wl[x] > watchlist_timeout)} |-> wl[s]]

\* a ranking that returns the list as it came
rank_signals_as_collected(pump_signals) == pump_signals
\* rank_signals: sorted(key = score, reverse = True), a stable sort (insertion
\* of each element after the elements whose score is not lower)
RECURSIVE rank_signals(_)
rank_signals(pump_signals) ==
    IF pump_signals = <<>> THEN <<>>
    ELSE LET n == Len(pump_signals)
             x == pump_signals[n]
             sorted == rank_signals(SubSeq(pump_signals, 1, n - 1))
             k == Cardinality({i \in 1..Len(sorted) : ScoreGE(sorted[i].score, x.score)})
         IN  SubSeq(sorted, 1, k) \o <<x>> \o SubSeq(sorted, k + 1, Len(sorted))

\* the lists get_all_usdt_perpetuals returns; <<>> is a failed fetch
UniverseChoices == {<<>>, <<"AUSDT", "BUSDT">>, <<"BUSDT">>}

Ticker(symbol, volume, price, change) ==
    [symbol |-> symbol, price |-> price, volume_24h |-> volume, price_change_24h |-> change]

\* what get_ticker_data returns for a symbol in batch_get_tickers (None: no ticker)
TickerChoices(symbol) ==
    { Some(Ticker(symbol, 2000000, 100, -90)),       \* a move above 8 %
      Some(Ticker(symbol, 4000000, 100, 80)) }       \* 2 x the minimum volume, 8.0 %: quiet
    \cup
    (IF symbol = "AUSDT"
       THEN { None,
              Some(Ticker(symbol, 1999999, 100, 90)),      \* below the minimum volume
              Some(Ticker(symbol, 5000000, 100001, 90)),   \* above the maximum price
              Some(Ticker(symbol, 5000000, 100, 31)),      \* high volume, moderate move
              Some(Ticker(symbol, 5000000, 100, 30)) }     \* high volume, 3.0 %: quiet
       ELSE {})

\* what get_comprehensive_data returns for a symbol in scan_symbol (None: absent or failed)
SnapshotChoices(symbol) ==
    { None,
      Some([Neutral EXCEPT !.symbol = symbol]),
      Some([ExampleData EXCEPT !.symbol = symbol]) }
    \cup
    (IF symbol = "AUSDT"
       THEN { Some([Neutral EXCEPT !.symbol = symbol, !.volume_current = 200]) }
       ELSE { Some([ExampleData EXCEPT !.symbol = symbol, !.volume_1h_ago = 0]) })

\* the instants at which a scan cycle starts
ScanInstants == {0, 1200, 1770, 1860, 3690}

\* every ordering of the elements of a set, as sequences
RECURSIVE Orderings(_)
Orderings(S) ==
    IF S = {} THEN {<<>>}
    ELSE UNION {{<<x>> \o o : o \in Orderings(S \ {x})} : x \in S}

RECURSIVE Concat(_)
Concat(ss) == IF ss = <<>> THEN <<>> ELSE ss[1] \o Concat(Tail(ss))

ScanInit ==
    /\ clock = 0
    /\ bot = BotStarted
    /\ pool = PoolIdle
    /\ EngineIdle /\ ConfluenceIdle /\ ScannerIdle /\ NotifierIdle /\ TrackerIdle

\* a refresh that takes the fetched list whatever it is
refresh_symbols_always_replace(cache, symbols, now) == <<symbols, Some(now)>>
\* refresh_symbols, symbols the list get_all_usdt_perpetuals returned and cache
\* the pair of all_symbols and last_symbol_refresh: the pair afterwards
refresh_symbols(cache, symbols, now) ==
    IF symbols # <<>> THEN <<symbols, Some(now)>> ELSE cache

\* scan_market, up to the tickers: refresh the symbols when due, return [] when
\* there are none, else fetch the tickers of all symbols
FetchTickers ==
    /\ scan.pc = "idle"
    /\ \E fetched \in UniverseChoices :
         LET due == IF last_symbol_refresh = None THEN TRUE
                    ELSE clock - last_symbol_refresh[1] > symbol_refresh_interval
             cache == IF due THEN refresh_symbols(<<all_symbols, last_symbol_refresh>>,
                                                  fetched, clock)
                      ELSE <<all_symbols, last_symbol_refresh>>
             symbols == cache[1]
         IN  /\ ~due => fetched = <<>>
             /\ all_symbols' = symbols
             /\ last_symbol_refresh' = cache[2]
             /\ IF symbols = <<>>
                  THEN scan' = [scan EXCEPT !.pc = "returned", !.pump_signals = <<>>,
                                            !.symbols = IF due THEN Some(fetched) ELSE None]
                  ELSE \E got \in [1..Len(symbols) -> UNION {TickerChoices(x) : x \in Range(symbols)}] :
                         /\ \A i \in 1..Len(symbols) : got[i] \in TickerChoices(symbols[i])
                         /\ scan' = [scan EXCEPT !.pc = "tickers", !.all_tickers = Concat(got),
                                                 !.pump_signals = <<>>,
                                                 !.symbols = IF due THEN Some(fetched) ELSE None]
    /\ UNCHANGED <<pool, bot, clock, engineVars, confluenceVars, watchlist, notifierVars, trackerVars>>

\* scan_market, stage 2: quick_filter; return [] when nothing passes
QuickFilter ==
    /\ scan.pc = "tickers"
    /\ LET filtered == quick_filter(scan.all_tickers, watchlist)
       IN  scan' = IF filtered = <<>>
                     THEN [scan EXCEPT !.pc = "returned", !.all_tickers = <<>>]
                     ELSE [scan EXCEPT !.pc = "filtered", !.filtered_symbols = filtered]
    /\ UNCHANGED <<pool, bot, clock, engineVars, confluenceVars, all_symbols, last_symbol_refresh,
                   watchlist, notifierVars, trackerVars>>

\* scan_symbol: None when the snapshot is absent or when fetching or scoring
\* raised (the except of scan_symbol returns None), else what analyze_coin gives
scan_symbol(cd, ms, now) ==
    IF cd = None THEN None ELSE analyze_coin(cd[1], ms, now)
\* a batch that gives up as soon as one symbol fails
scan_symbols_batch_all_or_nothing(symbols, data, ms, now) ==
    IF \E x \in symbols : data[x] = None THEN {}
    ELSE {x \in symbols : scan_symbol(data[x], ms, now) # None}
\* scan_symbols_batch: the symbols whose future gives a signal
scan_symbols_batch(symbols, data, ms, now) ==
    {x \in symbols : scan_symbol(data[x], ms, now) # None}

\* a watchlist that keeps the time a symbol was first put on it
add_to_watchlist_keep_first(wl, fired, now) ==
    [x \in DOMAIN wl \cup fired |-> IF x \in DOMAIN wl THEN wl[x] ELSE now]
\* self.watchlist[symbol] = datetime.now() for every symbol with a signal
add_to_watchlist(wl, fired, now) ==
    [x \in DOMAIN wl \cup fired |-> IF x \in fired THEN now ELSE wl[x]]

\* scan_market, stage 3: scan_symbols_batch(filtered_symbols).  scan_symbol runs
\* once per symbol handed over; a Decision puts the symbol on the watchlist; the
\* Decisions are collected in the order the workers complete.
DeepAnalysis ==
    /\ scan.pc = "filtered"
    /\ LET symbols == Range(scan.filtered_symbols)
       IN  \E data \in [symbols -> UNION {SnapshotChoices(x) : x \in symbols}] :
             /\ \A x \in symbols : data[x] \in SnapshotChoices(x)
             /\ LET signal(x) == scan_symbol(data[x], min_score, clock)
                    fired == scan_symbols_batch(symbols, data, min_score, clock)
                IN  /\ watchlist' = add_to_watchlist(watchlist, fired, clock)
                    /\ \E order \in Orderings(fired) :
                         scan' = [scan EXCEPT
                                    !.pc = "analysed",
                                    !.scanned = symbols,
                                    !.coin_data = data,
                                    !.pump_signals = [i \in 1..Len(order) |-> signal(order[i])[1]],
                                    !.decided = [x \in DOMAIN scan.decided \cup fired |->
                                                   IF x \in fired THEN clock ELSE scan.decided[x]]]
    /\ UNCHANGED <<pool, bot, clock, engineVars, confluenceVars, all_symbols, last_symbol_refresh,
                   notifierVars, trackerVars>>

\* scan_market, the end: rank the Decisions, clean the watchlist, return
RankAndClean ==
    /\ scan.pc = "analysed"
    /\ watchlist' = clean_watchlist(watchlist, clock)
    /\ scan' = [scan EXCEPT !.pc = "returned", !.all_tickers = <<>>,
                            !.filtered_symbols = <<>>, !.scanned = {}, !.coin_data = EmptyMap,
                            !.pump_signals = rank_signals(scan.pump_signals)]
    /\ UNCHANGED <<pool, bot, clock, engineVars, confluenceVars, all_symbols, last_symbol_refresh,
                   notifierVars, trackerVars>>

\* run_continuous_scan without a callback: after scan_market, sleep until the
\* next cycle, which starts scan_interval or more later (a cycle left out
\* between two instants is one whose tickers all failed the filter)
ScanSleep ==
    /\ scan.pc = "returned"
    /\ \E t \in ScanInstants :
         /\ t >= clock + scan_interval
         /\ clock' = t
    /\ scan' = [scan EXCEPT !.pc = "idle"]
    /\ UNCHANGED <<pool, bot, engineVars, confluenceVars, all_symbols, last_symbol_refresh, watchlist,
                   notifierVars, trackerVars>>

ScanNext == FetchTickers \/ QuickFilter \/ DeepAnalysis \/ RankAndClean \/ ScanSleep
SpecScan == ScanInit /\ [][ScanNext]_vars

\* ---------------------------------------------------------------------------
\* One scan cycle with scan_symbols_batch in its steps: the executor runs
\* scan_symbol for every symbol on a worker thread of its own (max_workers is
\* 10), the scan loop collects the futures as they complete and leaves the
\* with block when the executor has shut down.
\* ---------------------------------------------------------------------------
BatchInit ==
    /\ clock = 0
    /\ bot = BotStarted
    /\ pool = PoolIdle
    /\ EngineIdle /\ ConfluenceIdle /\ ScannerIdle /\ NotifierIdle /\ TrackerIdle

\* executor.submit(self.scan_symbol, symbol) for every symbol
SubmitBatch ==
    /\ scan.pc = "filtered"
    /\ scan' = [scan EXCEPT !.pc = "batch"]
    /\ pool' = [futures |-> [x \in Range(scan.filtered_symbols) |->
                                [pc |-> "running", cd |-> None, signal |-> None]],
                signals |-> <<>>]
    /\ UNCHANGED <<bot, clock, engineVars, confluenceVars, all_symbols, last_symbol_refresh,
                   watchlist, notifierVars, trackerVars>>

\* a worker: get_comprehensive_data returns (or raises) and analyze_coin runs
WorkerAnalysed(x) ==
    /\ x \in DOMAIN pool.futures
    /\ pool.futures[x].pc = "running"
    /\ \E cd \in SnapshotChoices(x) :
         LET signal == scan_symbol(cd, min_score, clock)
         IN  pool' = [pool EXCEPT !.futures[x] =
                        [pc |-> IF signal = None THEN "done" ELSE "write",
                         cd |-> cd, signal |-> signal]]
    /\ UNCHANGED <<bot, clock, engineVars, confluenceVars, scannerVars, notifierVars,
                   trackerVars>>

\* a worker: the upstream call of get_comprehensive_data never returns
WorkerHangs(x) ==
    /\ x \in DOMAIN pool.futures
    /\ pool.futures[x].pc = "running"
    /\ pool' = [pool EXCEPT !.futures[x].pc = "stuck"]
    /\ UNCHANGED <<bot, clock, engineVars, confluenceVars, scannerVars, notifierVars,
                   trackerVars>>

\* a worker: self.watchlist[symbol] = datetime.now(), then scan_symbol returns
WorkerWrite(x) ==
    /\ x \in DOMAIN pool.futures
    /\ pool.futures[x].pc = "write"
    /\ watchlist' = add_to_watchlist(watchlist, {x}, clock)
    /\ pool' = [pool EXCEPT !.futures[x].pc = "done"]
    /\ UNCHANGED <<bot, clock, engineVars, confluenceVars, all_symbols, last_symbol_refresh,
                   scan, notifierVars, trackerVars>>

\* the scan loop: as_completed yields a completed future, future.result(timeout=30)
\* gives its result at once, a signal is appended
Collect(x) ==
    /\ scan.pc = "batch"
    /\ x \in DOMAIN pool.futures
    /\ pool.futures[x].pc = "done"
    /\ pool' = [pool EXCEPT !.futures[x].pc = "collected",
                            !.signals = IF pool.futures[x].signal = None THEN @
                                        ELSE Append(@, pool.futures[x].signal[1])]
    /\ UNCHANGED <<bot, clock, engineVars, confluenceVars, scannerVars, notifierVars,
                   trackerVars>>

\* the scan loop: as_completed has yielded every future, the with block ends
\* (shutdown(wait=True)), scan_symbols_batch returns signals
BatchReturn ==
    /\ scan.pc = "batch"
    /\ \A x \in DOMAIN pool.futures : pool.futures[x].pc = "collected"
    /\ LET fired == {x \in DOMAIN pool.futures : pool.futures[x].signal # None}
       IN  scan' = [scan EXCEPT
                      !.pc = "analysed",
                      !.scanned = DOMAIN pool.futures,
                      !.coin_data = [x \in DOMAIN pool.futures |-> pool.futures[x].cd],
                      !.pump_signals = pool.signals,
                      !.decided = [x \in DOMAIN scan.decided \cup fired |->
                                     IF x \in fired THEN clock ELSE scan.decided[x]]]
    /\ pool' = PoolIdle
    /\ UNCHANGED <<bot, clock, engineVars, confluenceVars, all_symbols, last_symbol_refresh,
                   watchlist, notifierVars, trackerVars>>

BatchNext ==
    \/ FetchTickers
    \/ QuickFilter
    \/ SubmitBatch
    \/ \E x \in {"AUSDT", "BUSDT"} : WorkerAnalysed(x)
    \/ \E x \in {"AUSDT", "BUSDT"} : WorkerHangs(x)
    \/ \E x \in {"AUSDT", "BUSDT"} : WorkerWrite(x)
    \/ \E x \in {"AUSDT", "BUSDT"} : Collect(x)
    \/ BatchReturn
    \/ RankAndClean
SpecBatch == BatchInit /\ [][BatchNext]_vars
\* every thread that can take a step does so in the end
SpecBatchFair == SpecBatch /\ WF_vars(BatchNext)

(***************************************************************************)
(* SignalTracker                                                           *)
(* A percent change is the rational num / den with den > 0.  An id is the *)
(* pair <<coin, timestamp to the second>>.                                 *)
(***************************************************************************)
track_intervals == <<5, 15, 30, 60, 240, 1440>>

\* _save_signals run to its end by one thread alone: the file holds the store
_save_signals(db) == StorageFile("json", db)
\* _load_signals: {} for an absent file and for one json.load rejects
_load_signals(file) == IF file.kind = "json" THEN file.data ELSE EmptyMap
\* the storage after an operation on the store that ran alone, save included
Saved(st, db) == [st EXCEPT !.file = _save_signals(db), !.completed = db]

success_threshold == 3
Intervals == Range(track_intervals)

Pct(num, den) == [num |-> num, den |-> den]
PctGT(a, b) == a.num * b.den > b.num * a.den
PctLT(a, b) == a.num * b.den < b.num * a.den
PctGE(a, b) == a.num * b.den >= b.num * a.den

\* SignalRecord as record_signal builds it: samples and analysis unset
SignalRecord(id, pump_signal) ==
    [ id |-> id, coin |-> pump_signal.coin, timestamp |-> pump_signal.timestamp,
      entry_price |-> pump_signal.price, score |-> pump_signal.score,
      confidence |-> pump_signal.confidence,
      signals |-> [i \in 1..Len(pump_signal.signals) |-> pump_signal.signals[i].signal_type],
      price |-> [k \in Intervals |-> None],
      change |-> [k \in Intervals |-> None],
      max_gain |-> None, max_loss |-> None, success |-> None ]

signal_id(pump_signal) == <<pump_signal.coin, pump_signal.timestamp>>

\* record_signal: signals_db[signal_id] = record, whatever was there
record_signal(db, pump_signal) ==
    LET id == signal_id(pump_signal)
    IN  [x \in DOMAIN db \cup {id} |-> IF x = id THEN SignalRecord(id, pump_signal) ELSE db[x]]

_calculate_change(entry_price, current_price) ==
    IF entry_price = 0 THEN Pct(0, 1)
    ELSE Pct((current_price - entry_price) * 100, entry_price)

\* max_gain and max_loss counted from 0 instead of from the first sample
update_max_from_zero(record, change) ==
    LET gain == IF record.max_gain = None THEN Pct(0, 1) ELSE record.max_gain[1]
        loss == IF record.max_loss = None THEN Pct(0, 1) ELSE record.max_loss[1]
    IN  [record EXCEPT
           !.max_gain = IF PctGT(change, gain) THEN Some(change) ELSE Some(gain),
           !.max_loss = IF PctLT(change, loss) THEN Some(change) ELSE Some(loss)]
\* max_gain and max_loss overwritten by every sample
update_max_last_sample(record, change) ==
    [record EXCEPT !.max_gain = Some(change), !.max_loss = Some(change)]
\* update_signal_price: "Update max gain/loss"
update_max(record, change) ==
    [record EXCEPT
       !.max_gain = IF record.max_gain = None \/ PctGT(change, record.max_gain[1])
                      THEN Some(change) ELSE @,
       !.max_loss = IF record.max_loss = None \/ PctLT(change, record.max_loss[1])
                      THEN Some(change) ELSE @]

\* the success flag set by every sample
update_success_every_sample(record, interval, change) ==
    [record EXCEPT !.success = Some(PctGE(change, Pct(success_threshold, 1)))]
\* update_signal_price: "Update success flag (after 1h)"
update_success(record, interval, change) ==
    IF interval = 60
      THEN [record EXCEPT !.success = Some(PctGE(change, Pct(success_threshold, 1)))]
      ELSE record

\* update_signal_price; ticker is what get_ticker_data returned: None or the price
update_signal_price(db, id, interval, ticker) ==
    IF id \notin DOMAIN db THEN db
    ELSE IF ticker = None THEN db
    ELSE
      LET record_dict == db[id]
          current_price == ticker[1]
          change == _calculate_change(record_dict.entry_price, current_price)
          sampled == [record_dict EXCEPT !.price[interval] = Some(current_price),
                                         !.change[interval] = Some(change)]
      IN  [db EXCEPT ![id] = update_success(update_max(sampled, change), interval, change)]

\* the field of a record that is kept in price[k], under its name in the code
price_field(k) ==
    CASE k = 5 -> "price_5m" [] k = 15 -> "price_15m" [] k = 30 -> "price_30m"
      [] k = 60 -> "price_1h" [] k = 240 -> "price_4h" [] k = 1440 -> "price_24h"
\* record_dict.get(key): None for a key the record does not have
get_price(record_dict, key) ==
    IF \E k \in Intervals : price_field(k) = key
      THEN record_dict.price[CHOOSE k \in Intervals : price_field(k) = key]
      ELSE None

\* interval_key with the minutes form for every interval
interval_key_in_minutes(interval) ==
    CASE interval = 5 -> "price_5m" [] interval = 15 -> "price_15m"
      [] interval = 30 -> "price_30m" [] interval = 60 -> "price_60m"
      [] interval = 240 -> "price_240m" [] interval = 1440 -> "price_1440m"
\* interval_key of _tracking_loop: price_<n>m below 60 minutes, price_<n>h
\* below 1440, else price_24h
interval_key(interval) ==
    IF interval < 60
      THEN (CASE interval = 5 -> "price_5m" [] interval = 15 -> "price_15m"
              [] interval = 30 -> "price_30m")
      ELSE IF interval < 1440
        THEN (CASE interval \div 60 = 1 -> "price_1h" [] interval \div 60 = 4 -> "price_4h")
        ELSE "price_24h"

\* the test of _tracking_loop met only within 30 s of the offset: a sample is
\* tried in one tick and never again
is_due_in_one_tick(record_dict, interval, now) ==
    /\ now - record_dict.timestamp >= interval * 60
    /\ now - record_dict.timestamp < interval * 60 + 30
    /\ get_price(record_dict, interval_key(interval)) = None
\* the test of _tracking_loop without the elapsed time
is_due_at_once(record_dict, interval, now) ==
    get_price(record_dict, interval_key(interval)) = None
\* the test of _tracking_loop: elapsed_minutes >= interval and the sample unset
is_due(record_dict, interval, now) ==
    /\ now - record_dict.timestamp >= interval * 60
    /\ get_price(record_dict, interval_key(interval)) = None

\* the ids of a store in the order of their timestamps, then of their coins
RECURSIVE IdsInOrder(_)
IdsInOrder(ids) ==
    IF ids = {} THEN <<>>
    ELSE LET first == CHOOSE x \in ids :
                        \A y \in ids : x[2] < y[2] \/ (x[2] = y[2] /\ (x = y \/ x[1] = "AUSDT"))
         IN  <<first>> \o IdsInOrder(ids \ {first})

\* the (id, interval) pairs one iteration of _tracking_loop updates, in its order
due_updates(db, now) ==
    LET ids == IdsInOrder(DOMAIN db)
        of(id) == LET due == SelectSeq(track_intervals, LAMBDA k : is_due(db[id], k, now))
                  IN  [i \in 1..Len(due) |-> <<id, due[i]>>]
    IN  Concat([i \in 1..Len(ids) |-> of(ids[i])])

\* get_active_signals: list(self.signals_db.values()), as a set of records
get_active_signals(db) == {db[id] : id \in DOMAIN db}

\* the Decision the tracker is given: the worked example at an entry price of 1000
TrackedData == [ExampleData EXCEPT !.symbol = "AUSDT", !.price = 1000,
                                   !.long_liq_price = 970, !.short_liq_price = 1030]
\* the snapshots behind the Decisions the tracker is given
TrackedChoices == {TrackedData, [TrackedData EXCEPT !.price = 1010]}
\* the prices get_ticker_data returns while tracking
PriceChoices == {970, 1025, 1030}
\* the instants at which the tracker loop wakes up
TrackInstants == {0, 270, 300, 900, 1800, 3600, 14400, 86400, 86460}
MaxRecords == 1

TrackInit ==
    /\ clock = 0
    /\ bot = BotStarted
    /\ pool = PoolIdle
    /\ EngineIdle /\ ConfluenceIdle /\ ScannerIdle /\ NotifierIdle /\ TrackerIdle

\* record_signal(pump_signal) for a Decision made now
RecordSignal ==
    /\ \E cd \in TrackedChoices :
         LET pump_signal == analyze_coin(cd, min_score, clock)[1]
             id == signal_id(pump_signal)
         IN  /\ id \in DOMAIN signals_db \/ Cardinality(DOMAIN signals_db) < MaxRecords
             /\ signals_db' = record_signal(signals_db, pump_signal)
             /\ storage' = Saved(storage, signals_db')
             /\ tracker' = [tracker EXCEPT !.active_signals = @ \cup {id}]
    /\ UNCHANGED <<pool, bot, clock, engineVars, confluenceVars, scannerVars, notifierVars>>

\* _tracking_loop, the start of an iteration: now is read once; every record of
\* signals_db is visited and its due samples are updated one after the other
TrackingLoopWake ==
    /\ tracker.pc = "wake"
    /\ tracker.tracking_enabled
    /\ tracker' = [tracker EXCEPT
                     !.pc = "updating",
                     !.todo = due_updates(signals_db, clock),
                     !.signals_to_remove =
                         {id \in DOMAIN signals_db : clock - signals_db[id].timestamp > 1440 * 60}]
    /\ UNCHANGED <<pool, bot, clock, signals_db, storage, engineVars, confluenceVars, scannerVars,
                   notifierVars>>

\* one call update_signal_price(signal_id, interval) of the iteration
UpdateSignalPrice ==
    /\ tracker.pc = "updating"
    /\ tracker.todo # <<>>
    /\ \E ticker \in {None} \cup {Some(p) : p \in PriceChoices} :
         /\ signals_db' = update_signal_price(signals_db, Head(tracker.todo)[1],
                                              Head(tracker.todo)[2], ticker)
         /\ storage' = IF ticker = None \/ Head(tracker.todo)[1] \notin DOMAIN signals_db
                         THEN storage ELSE Saved(storage, signals_db')
    /\ tracker' = [tracker EXCEPT !.todo = Tail(@)]
    /\ UNCHANGED <<pool, bot, clock, engineVars, confluenceVars, scannerVars, notifierVars>>

\* the end of an iteration: drop the records older than 24 h from
\* active_signals, sleep 30 s or longer
TrackingLoopSleep ==
    /\ tracker.pc = "updating"
    /\ tracker.todo = <<>>
    /\ tracker' = [tracker EXCEPT !.pc = "wake", !.signals_to_remove = {},
                                  !.active_signals = @ \ tracker.signals_to_remove]
    /\ \E t \in TrackInstants :
         /\ t >= clock + 30
         /\ clock' = t
    /\ UNCHANGED <<pool, bot, signals_db, storage, engineVars, confluenceVars, scannerVars, notifierVars>>

TrackNext == RecordSignal \/ TrackingLoopWake \/ UpdateSignalPrice \/ TrackingLoopSleep
SpecTrack == TrackInit /\ [][TrackNext]_vars

\* ---------------------------------------------------------------------------
\* The tracker loop that keeps ticking. Time beyond the last instant is not
\* counted: the loop goes on waking up with the clock at that instant.
\* ---------------------------------------------------------------------------
FairInstants == {0, 300, 330, 900}

\* the end of an iteration, time.sleep(30), and whatever else delays the wake
TrackingLoopSleepOn ==
    /\ tracker.pc = "updating"
    /\ tracker.todo = <<>>
    /\ tracker' = [tracker EXCEPT !.pc = "wake", !.signals_to_remove = {},
                                  !.active_signals = @ \ tracker.signals_to_remove]
    /\ IF \E t \in FairInstants : t >= clock + 30
         THEN \E t \in FairInstants : t >= clock + 30 /\ clock' = t
         ELSE clock' = clock
    /\ UNCHANGED <<pool, bot, signals_db, storage, engineVars, confluenceVars, scannerVars, notifierVars>>

\* update_signal_price with get_ticker_data returning a ticker
FetchSucceeds == UpdateSignalPrice /\ signals_db' # signals_db

TrackFairNext == RecordSignal \/ TrackingLoopWake \/ UpdateSignalPrice \/ TrackingLoopSleepOn
\* the thread runs its loop for ever, and a fetch that is tried again and
\* again succeeds in the end
SpecTrackFair ==
    /\ TrackInit /\ [][TrackFairNext]_vars
    /\ WF_vars(TrackingLoopWake) /\ WF_vars(UpdateSignalPrice) /\ WF_vars(TrackingLoopSleepOn)
    /\ SF_vars(FetchSucceeds)

\* ---------------------------------------------------------------------------
\* start_background_tracking and stop_background_tracking called in any order,
\* and the threads they leave behind. A thread is at the test of its while
\* loop ("check"), in an iteration ("tick"), in time.sleep(30) ("sleep") or
\* has returned from _tracking_loop ("ended").
\* ---------------------------------------------------------------------------
MaxThreads == 2
MaxThreadsClock == 40

\* Thread.is_alive()
is_alive(threads, i) == threads[i].pc # "ended"

\* the test of start_background_tracking made on the flag instead of the thread
already_running_by_flag(tr) == tr.tracker_thread # None /\ tr.tracking_enabled
\* start_background_tracking: self.tracker_thread and self.tracker_thread.is_alive()
already_running(tr) ==
    IF tr.tracker_thread = None THEN FALSE ELSE is_alive(tr.threads, tr.tracker_thread[1])

ThreadsInit ==
    /\ clock = 0
    /\ bot = BotStarted
    /\ pool = PoolIdle
    /\ EngineIdle /\ ConfluenceIdle /\ ScannerIdle /\ NotifierIdle /\ TrackerIdle

\* start_background_tracking()
StartTracking ==
    /\ tracker.last_call # "stopping"
    /\ IF already_running(tracker)
         THEN tracker' = [tracker EXCEPT !.last_call = "start_skipped"]
         ELSE /\ Len(tracker.threads) < MaxThreads
              /\ tracker' = [tracker EXCEPT
                               !.tracking_enabled = TRUE,
                               !.threads = Append(@, [pc |-> "check", wake_at |-> 0]),
                               !.tracker_thread = Some(Len(tracker.threads) + 1),
                               !.last_call = "start"]
    /\ UNCHANGED <<pool, bot, clock, signals_db, storage, engineVars, confluenceVars, scannerVars,
                   notifierVars>>

\* stop_background_tracking(): the flag is cleared and, with a thread,
\* tracker_thread.join(timeout=5) begins
StopTracking ==
    /\ tracker.last_call # "stopping"
    /\ tracker' = [tracker EXCEPT
                     !.tracking_enabled = FALSE,
                     !.last_call = IF tracker.tracker_thread = None THEN "stop" ELSE "stopping",
                     !.join_until = IF tracker.tracker_thread = None THEN None
                                    ELSE Some(clock + 5)]
    /\ UNCHANGED <<pool, bot, clock, signals_db, storage, engineVars, confluenceVars, scannerVars,
                   notifierVars>>

\* join(timeout=5) returns: the thread has ended or the 5 s are over
JoinEnds ==
    /\ tracker.last_call = "stopping"
    /\ \/ ~is_alive(tracker.threads, tracker.tracker_thread[1])
       \/ clock >= tracker.join_until[1]
    /\ tracker' = [tracker EXCEPT !.last_call = "stop", !.join_until = None]
    /\ UNCHANGED <<pool, bot, clock, signals_db, storage, engineVars, confluenceVars, scannerVars,
                   notifierVars>>

\* _tracking_loop: while self.tracking_enabled
ThreadChecks(i) ==
    /\ tracker.threads[i].pc = "check"
    /\ tracker' = [tracker EXCEPT !.threads[i].pc = IF tracker.tracking_enabled THEN "tick"
                                                    ELSE "ended"]
    /\ UNCHANGED <<pool, bot, clock, signals_db, storage, engineVars, confluenceVars, scannerVars,
                   notifierVars>>

\* _tracking_loop: the body of an iteration up to the call of time.sleep(30)
ThreadTicks(i) ==
    /\ tracker.threads[i].pc = "tick"
    /\ tracker' = [tracker EXCEPT !.threads[i] = [pc |-> "sleep", wake_at |-> clock + 30]]
    /\ UNCHANGED <<pool, bot, clock, signals_db, storage, engineVars, confluenceVars, scannerVars,
                   notifierVars>>

\* _tracking_loop: time.sleep(30) returns
ThreadWakes(i) ==
    /\ tracker.threads[i].pc = "sleep"
    /\ clock >= tracker.threads[i].wake_at
    /\ tracker' = [tracker EXCEPT !.threads[i] = [pc |-> "check", wake_at |-> 0]]
    /\ UNCHANGED <<pool, bot, clock, signals_db, storage, engineVars, confluenceVars, scannerVars,
                   notifierVars>>

\* 5 s pass; a sleep and a join do not outlast their time, and the test of
\* the while loop takes none
ThreadsTime ==
    /\ clock < MaxThreadsClock
    /\ \A i \in DOMAIN tracker.threads :
          /\ tracker.threads[i].pc # "check"
          /\ tracker.threads[i].pc = "sleep" => clock < tracker.threads[i].wake_at
    /\ tracker.last_call = "stopping" =>
          (clock < tracker.join_until[1] /\ is_alive(tracker.threads, tracker.tracker_thread[1]))
    /\ clock' = clock + 5
    /\ UNCHANGED <<pool, bot, signals_db, tracker, storage, engineVars, confluenceVars, scannerVars,
                   notifierVars>>

ThreadsNext ==
    \/ StartTracking
    \/ StopTracking
    \/ JoinEnds
    \/ \E i \in 1..MaxThreads : i <= Len(tracker.threads) /\ ThreadChecks(i)
    \/ \E i \in 1..MaxThreads : i <= Len(tracker.threads) /\ ThreadTicks(i)
    \/ \E i \in 1..MaxThreads : i <= Len(tracker.threads) /\ ThreadWakes(i)
    \/ ThreadsTime
SpecThreads == ThreadsInit /\ [][ThreadsNext]_vars

\* ---------------------------------------------------------------------------
\* The outcome store under its two writers. record_signal runs on the main
\* thread, update_signal_price on the tracker thread (threading.Thread started
\* by start_background_tracking); neither takes a lock. Each operation is the assignment
\* to signals_db followed by _save_signals, whose steps are open(file, 'w'),
\* json.dump into the file object's buffer, and the close that flushes it.
\* ---------------------------------------------------------------------------
StoreInstants == {0, 300}
MaxStored == 2

\* what the file holds once a handle opened at offset 0 flushes buf over it: an
\* empty file takes the text; over a text left by the other handle the longer
\* one wins and a shorter one leaves the tail of the other behind it
Flush(file, buf) ==
    IF file.kind \in {"absent", "empty"} THEN {_save_signals(buf)}
    ELSE IF file.kind = "json" /\ file.data = buf THEN {file}
    ELSE IF file.kind = "json" /\ Cardinality(DOMAIN buf) > Cardinality(DOMAIN file.data)
         THEN {_save_signals(buf)}
    ELSE IF file.kind = "json" /\ Cardinality(DOMAIN buf) < Cardinality(DOMAIN file.data)
         THEN {StorageFile("corrupt", EmptyMap)}
    ELSE {_save_signals(buf), StorageFile("corrupt", EmptyMap)}

AllIdle(th) == \A t \in Threads : th[t].pc = "idle"

StoreInit ==
    /\ clock = 0
    /\ bot = BotStarted
    /\ pool = PoolIdle
    /\ EngineIdle /\ ConfluenceIdle /\ ScannerIdle /\ NotifierIdle /\ TrackerIdle

\* record_signal up to its assignment signals_db[signal_id] = record.to_dict()
StoreRecordAssign ==
    /\ storage.th["main"].pc = "idle"
    /\ \E cd \in TrackedChoices :
         LET pump_signal == analyze_coin(cd, min_score, clock)[1]
             id == signal_id(pump_signal)
         IN  /\ id \in DOMAIN signals_db \/ Cardinality(DOMAIN signals_db) < MaxStored
             /\ signals_db' = record_signal(signals_db, pump_signal)
             /\ storage' = [storage EXCEPT !.th["main"].pc = "open",
                                           !.th["main"].signal_id = Some(id)]
    /\ UNCHANGED <<pool, bot, clock, tracker, engineVars, confluenceVars, scannerVars, notifierVars>>

\* update_signal_price, for a sample the tracking loop found due, up to its
\* assignment signals_db[signal_id] = record_dict
StoreUpdateAssign ==
    /\ storage.th["tracker"].pc = "idle"
    /\ \E i \in DOMAIN due_updates(signals_db, clock), p \in PriceChoices :
         LET u == due_updates(signals_db, clock)[i]
         IN  /\ signals_db' = update_signal_price(signals_db, u[1], u[2], Some(p))
             /\ storage' = [storage EXCEPT !.th["tracker"].pc = "open",
                                           !.th["tracker"].signal_id = Some(u[1])]
    /\ UNCHANGED <<pool, bot, clock, tracker, engineVars, confluenceVars, scannerVars, notifierVars>>

\* _save_signals: open(self.storage_file, 'w') truncates the file
StoreOpen(t) ==
    /\ storage.th[t].pc = "open"
    /\ storage' = [storage EXCEPT !.th[t].pc = "dump",
                                  !.file = StorageFile("empty", EmptyMap)]
    /\ UNCHANGED <<pool, bot, clock, signals_db, tracker, engineVars, confluenceVars, scannerVars,
                   notifierVars>>

\* _save_signals: json.dump(self.signals_db, f, indent=2) serialises the store
\* as it is now into the buffer of f
StoreDump(t) ==
    /\ storage.th[t].pc = "dump"
    /\ storage' = [storage EXCEPT !.th[t].pc = "close", !.th[t].buf = signals_db]
    /\ UNCHANGED <<pool, bot, clock, signals_db, tracker, engineVars, confluenceVars, scannerVars,
                   notifierVars>>

\* _save_signals: leaving the with block flushes the buffer and closes f; the
\* operation returns (record_signal adds the id to active_signals first)
StoreClose(t) ==
    /\ storage.th[t].pc = "close"
    /\ \E file \in Flush(storage.file, storage.th[t].buf) :
         storage' = [storage EXCEPT
                       !.th[t] = [pc |-> "idle", signal_id |-> None, buf |-> EmptyMap],
                       !.file = file,
                       !.completed = IF \A o \in Threads \ {t} : storage.th[o].pc = "idle"
                                       THEN signals_db ELSE @]
    /\ tracker' = IF t = "main"
                    THEN [tracker EXCEPT !.active_signals = @ \cup {storage.th[t].signal_id[1]}]
                    ELSE tracker
    /\ UNCHANGED <<pool, bot, clock, signals_db, engineVars, confluenceVars, scannerVars, notifierVars>>

\* the process dies wherever its threads are and is started again: __init__
\* sets signals_db = _load_signals() and an empty active_signals
StoreCrashRestart ==
    /\ signals_db' = _load_signals(storage.file)
    /\ storage' = [StorageStart EXCEPT !.file = storage.file, !.completed = signals_db']
    /\ tracker' = TrackerStart
    /\ UNCHANGED <<pool, bot, clock, engineVars, confluenceVars, scannerVars, notifierVars>>

\* time passes between operations (an operation takes far less than the 30 s
\* the tracking loop sleeps)
StoreTick ==
    /\ AllIdle(storage.th)
    /\ \E t \in StoreInstants :
         /\ t > clock
         /\ clock' = t
    /\ UNCHANGED <<pool, bot, signals_db, tracker, storage, engineVars, confluenceVars, scannerVars,
                   notifierVars>>

StoreNext ==
    \/ StoreRecordAssign
    \/ StoreUpdateAssign
    \/ \E t \in Threads : StoreOpen(t)
    \/ \E t \in Threads : StoreDump(t)
    \/ \E t \in Threads : StoreClose(t)
    \/ StoreCrashRestart
    \/ StoreTick
SpecStore == StoreInit /\ [][StoreNext]_vars

\* ---------------------------------------------------------------------------
\* The outcome store when a write fails. One operation at a time; a run of
\* _save_signals ends well, or open(file, 'w') raises (the file is untouched),
\* or the write raises after the file was truncated (the file is left empty or
\* with a part of the text).
\* ---------------------------------------------------------------------------
SaveOutcomes == {"ok", "open_raises", "write_raises"}

\* _save_signals re-raising what it caught
_save_signals_returns_reraise(outcome) == outcome = "ok"
\* _save_signals: "except Exception as e: logger.error(...)": whatever the
\* outcome, the call returns to its caller
_save_signals_returns(outcome) == TRUE

\* the files a run of _save_signals(db) with this outcome can leave
files_after_save(file, db, outcome) ==
    CASE outcome = "ok"           -> {_save_signals(db)}
      [] outcome = "open_raises"  -> {file}
      [] outcome = "write_raises" -> {StorageFile("empty", EmptyMap), StorageFile("corrupt", EmptyMap)}

SaveFailInit ==
    /\ clock = 0
    /\ bot = BotStarted
    /\ pool = PoolIdle
    /\ EngineIdle /\ ConfluenceIdle /\ ScannerIdle /\ NotifierIdle /\ TrackerIdle

\* record_signal(pump_signal), its _save_signals ending with some outcome;
\* line 132 is reached when _save_signals returns
RecordSignalSaving ==
    /\ \E cd \in TrackedChoices, outcome \in SaveOutcomes :
         LET pump_signal == analyze_coin(cd, min_score, clock)[1]
             id == signal_id(pump_signal)
         IN  /\ id \in DOMAIN signals_db \/ Cardinality(DOMAIN signals_db) < MaxStored
             /\ signals_db' = record_signal(signals_db, pump_signal)
             /\ \E file \in files_after_save(storage.file, signals_db', outcome) :
                   storage' = [storage EXCEPT !.file = file, !.completed = signals_db',
                                              !.save_error = (outcome # "ok")]
             /\ tracker' = IF _save_signals_returns(outcome)
                             THEN [tracker EXCEPT !.active_signals = @ \cup {id}]
                             ELSE tracker
    /\ UNCHANGED <<pool, bot, clock, engineVars, confluenceVars, scannerVars, notifierVars>>

\* update_signal_price for a sample that is due, the ticker fetched, its
\* _save_signals ending with some outcome
UpdateSignalPriceSaving ==
    /\ \E i \in DOMAIN due_updates(signals_db, clock), p \in PriceChoices, outcome \in SaveOutcomes :
         LET u == due_updates(signals_db, clock)[i]
         IN  /\ signals_db' = update_signal_price(signals_db, u[1], u[2], Some(p))
             /\ \E file \in files_after_save(storage.file, signals_db', outcome) :
                   storage' = [storage EXCEPT !.file = file, !.completed = signals_db',
                                              !.save_error = (outcome # "ok")]
    /\ UNCHANGED <<pool, bot, clock, tracker, engineVars, confluenceVars, scannerVars, notifierVars>>

SaveFailNext == RecordSignalSaving \/ UpdateSignalPriceSaving \/ StoreTick
SpecSaveFail == SaveFailInit /\ [][SaveFailNext]_vars

(***************************************************************************)
(* TelegramNotifier and the callback of the scan loop                      *)
(***************************************************************************)
notification_cooldown == 900
max_notifications_per_scan == 5

\* a notifier without a cooldown
_should_notify_always(sent, symbol, now) == TRUE
\* _should_notify: never sent, or sent more than the cooldown ago
_should_notify(sent, symbol, now) ==
    IF symbol \notin DOMAIN sent THEN TRUE
    ELSE now - sent[symbol] > notification_cooldown

\* notify_signal recording the time of every attempt
mark_sent_every_attempt(sent, coin, success, now) ==
    [x \in DOMAIN sent \cup {coin} |-> IF x = coin THEN now ELSE sent[x]]
\* notify_signal: "if success: self.sent_signals[signal.coin] = datetime.now()"
mark_sent(sent, coin, success, now) ==
    IF success THEN [x \in DOMAIN sent \cup {coin} |-> IF x = coin THEN now ELSE sent[x]]
    ELSE sent

\* notify_signal for the signals of a batch in turn; ok[i] tells whether
\* send_message succeeded for the i-th of them.  The result is the pair of
\* sent_signals and the messages that went out.
RECURSIVE notify_each(_, _, _, _, _, _)
notify_each(signals, ok, i, sent, out, now) ==
    IF i > Len(signals) THEN <<sent, out>>
    ELSE LET signal == signals[i]
         IN  IF _should_notify(sent, signal.coin, now)
               THEN notify_each(signals, ok, i + 1,
                                mark_sent(sent, signal.coin, ok[i], now),
                                IF ok[i]
                                  THEN Append(out, [coin |-> signal.coin, score |-> signal.score,
                                                    rank |-> i, time |-> now])
                                  ELSE out,
                                now)
               ELSE notify_each(signals, ok, i + 1, sent, out, now)

\* the Python slice s[:n]: the first n elements, and for a negative n all but
\* the last -n
slice_to(s, n) ==
    IF n >= 0 THEN SubSeq(s, 1, Min(n, Len(s))) ELSE SubSeq(s, 1, Max(Len(s) + n, 0))

\* notify_signals_batch: the signals out of cooldown, signals_to_send[:max_notify]
notify_signals_batch(signals, max_notify, ok, sent, out, now) ==
    LET signals_to_send == SelectSeq(signals, LAMBDA x : _should_notify(sent, x.coin, now))
    IN  notify_each(slice_to(signals_to_send, max_notify), ok, 1, sent, out, now)

RECURSIVE record_all(_, _)
record_all(db, signals) ==
    IF signals = <<>> THEN db ELSE record_all(record_signal(db, Head(signals)), Tail(signals))

\* handle_pump_signals that sends first and records the Decisions whose alert
\* went out
handle_pump_signals_record_sent(db, signals, ok, sent, out, now) ==
    LET done == notify_signals_batch(signals, max_notifications_per_scan, ok, sent, out, now)
        coins == {done[2][i].coin : i \in Len(out) + 1 .. Len(done[2])}
    IN  <<record_all(db, SelectSeq(signals, LAMBDA x : x.coin \in coins)), done[1], done[2]>>
\* handle_pump_signals for a non-empty list: record_signal for every signal,
\* then notify_signals_batch; the store, sent_signals and the messages out
handle_pump_signals(db, signals, ok, sent, out, now) ==
    LET recorded == record_all(db, signals)
        done == notify_signals_batch(signals, max_notifications_per_scan, ok, sent, out, now)
    IN  <<recorded, done[1], done[2]>>

\* the instants at which a cycle of the whole pipeline starts
PipelineInstants == {0, 900, 990}

PipelineInit ==
    /\ clock = 0
    /\ bot = BotStarted
    /\ pool = PoolIdle
    /\ min_score \in {80, 85}
    /\ signals_history = EmptyMap
    /\ coin_data = NeutralData("BTCUSDT")
    /\ results = <<>>
    /\ ConfluenceIdle /\ ScannerIdle /\ NotifierIdle /\ TrackerIdle

\* run_continuous_scan with handle_pump_signals as its callback: what scan_market
\* returned is recorded, every signal, then notified
HandlePumpSignals ==
    /\ scan.pc = "returned"
    /\ scan' = [scan EXCEPT !.pc = "handled"]
    /\ IF scan.pump_signals = <<>>
         THEN UNCHANGED <<signals_db, tracker, storage, sent_signals, batch, delivered>>
         ELSE /\ \E ok \in [1..Len(scan.pump_signals) -> BOOLEAN] :
                   LET done == handle_pump_signals(signals_db, scan.pump_signals, ok,
                                                   sent_signals, delivered, clock)
                   IN  /\ signals_db' = done[1]
                       /\ sent_signals' = done[2]
                       /\ delivered' = done[3]
              /\ storage' = Saved(storage, signals_db')
              /\ tracker' = [tracker EXCEPT !.active_signals =
                               @ \cup {signal_id(x) : x \in Range(scan.pump_signals)}]
              /\ batch' = [signals |-> scan.pump_signals,
                           max_notify |-> max_notifications_per_scan]
    /\ UNCHANGED <<pool, bot, clock, engineVars, confluenceVars, all_symbols, last_symbol_refresh, watchlist>>

\* time.sleep(scan_interval) after the callback
PipelineSleep ==
    /\ scan.pc = "handled"
    /\ \E t \in PipelineInstants :
         /\ t >= clock + scan_interval
         /\ clock' = t
    /\ scan' = [scan EXCEPT !.pc = "idle"]
    /\ UNCHANGED <<pool, bot, engineVars, confluenceVars, all_symbols, last_symbol_refresh, watchlist,
                   notifierVars, trackerVars>>

PipelineNext ==
    FetchTickers \/ QuickFilter \/ DeepAnalysis \/ RankAndClean \/ HandlePumpSignals \/ PipelineSleep
SpecPipeline == PipelineInit /\ [][PipelineNext]_vars

\* ---------------------------------------------------------------------------
\* run_continuous_scan as a loop: while True, scan_market, the callback, the
\* sleep, with the exceptions each of them can raise and the user's interrupt.
\* ---------------------------------------------------------------------------
MaxLoopClock == 90

\* a loop that ends on any exception
on_exception_always_break(e) == "break"
\* the except clauses of the loop: break on KeyboardInterrupt, log and sleep
\* scan_interval on any other Exception
on_exception(e) == IF e = "KeyboardInterrupt" THEN "break" ELSE "sleep"

LoopInit ==
    /\ clock = 0
    /\ bot = BotStarted
    /\ pool = PoolIdle
    /\ EngineIdle /\ ConfluenceIdle /\ ScannerIdle /\ NotifierIdle /\ TrackerIdle

\* an exception anywhere in scan_market: its except logs it and returns []
ScanMarketRaises ==
    /\ scan.pc \in {"idle", "tickers", "filtered", "analysed"}
    /\ scan' = [scan EXCEPT !.pc = "returned", !.all_tickers = <<>>, !.filtered_symbols = <<>>,
                            !.scanned = {}, !.coin_data = EmptyMap, !.pump_signals = <<>>]
    /\ UNCHANGED <<pool, bot, clock, engineVars, confluenceVars, all_symbols,
                   last_symbol_refresh, watchlist, notifierVars, trackerVars>>

\* the callback raises after recording some of the signals: the loop logs the
\* error and goes on to the sleep
CallbackRaises ==
    /\ scan.pc = "returned"
    /\ scan.pump_signals # <<>>
    /\ scan' = [scan EXCEPT !.pc = "handled"]
    /\ \E k \in 0..(Len(scan.pump_signals) - 1) :
         LET recorded == SubSeq(scan.pump_signals, 1, k)
         IN  /\ signals_db' = record_all(signals_db, recorded)
             /\ storage' = IF k = 0 THEN storage ELSE Saved(storage, signals_db')
             /\ tracker' = [tracker EXCEPT !.active_signals =
                              @ \cup {signal_id(x) : x \in Range(recorded)}]
    /\ UNCHANGED <<pool, bot, clock, engineVars, confluenceVars, all_symbols,
                   last_symbol_refresh, watchlist, notifierVars>>

\* an exception in the body of the loop outside scan_market and the callback
\* (the logging of the signals): the outer except
LoopBodyRaises ==
    /\ scan.pc = "returned"
    /\ IF on_exception("Exception") = "sleep"
         THEN scan' = [scan EXCEPT !.pc = "handled"] /\ bot' = bot
         ELSE scan' = scan /\ bot' = [bot EXCEPT !.pc = "stopped", !.running = FALSE]
    /\ UNCHANGED <<pool, clock, engineVars, confluenceVars, all_symbols, last_symbol_refresh,
                   watchlist, notifierVars, trackerVars>>

\* time.sleep(self.scan_interval), in the body of the loop or in its except
\* clause, and back to the top of the loop
LoopSleep ==
    /\ scan.pc = "handled"
    /\ clock + scan_interval <= MaxLoopClock
    /\ clock' = clock + scan_interval
    /\ scan' = [scan EXCEPT !.pc = "idle"]
    /\ UNCHANGED <<pool, bot, engineVars, confluenceVars, all_symbols, last_symbol_refresh,
                   watchlist, notifierVars, trackerVars>>

\* the loop while the bot runs
LoopStep ==
    /\ bot.pc = "scanning"
    /\ \/ FetchTickers \/ QuickFilter \/ DeepAnalysis \/ RankAndClean
       \/ HandlePumpSignals \/ LoopSleep
       \/ ScanMarketRaises \/ CallbackRaises \/ LoopBodyRaises

\* Ctrl+C: the loop breaks and run() goes to its finally block
KeyboardInterrupt ==
    /\ bot.pc = "scanning"
    /\ on_exception("KeyboardInterrupt") = "break"
    /\ bot' = [bot EXCEPT !.pc = "interrupted", !.running = FALSE]
    /\ UNCHANGED <<pool, clock, engineVars, confluenceVars, scannerVars, notifierVars,
                   trackerVars>>

LoopNext == LoopStep \/ KeyboardInterrupt
\* the loop takes its next step as long as it has one; the user may never
\* interrupt
SpecLoop == LoopInit /\ [][LoopNext]_vars /\ WF_vars(LoopStep)

\* ---------------------------------------------------------------------------
\* Shutdown: run() leaves run_continuous_scan on the user's interrupt, its
\* finally block calls stop_background_tracking (tracking_enabled = False,
\* join(timeout=5)) and the process exits; the tracker thread is a daemon
\* thread. A tick of the tracker is followed in the steps of its store writes.
\* ---------------------------------------------------------------------------
ShutdownInstants == {0, 300, 900}

ShutdownInit ==
    /\ clock = 0
    /\ bot = BotStarted
    /\ pool = PoolIdle
    /\ EngineIdle /\ ConfluenceIdle /\ ScannerIdle /\ NotifierIdle /\ TrackerIdle

\* the callback of the scan loop records a Decision
ShutdownRecord ==
    /\ bot.pc = "scanning"
    /\ storage.th["tracker"].pc = "idle"
    /\ RecordSignal

\* the tracker thread, the top of its loop: while self.tracking_enabled
TickBegins ==
    /\ bot.pc # "exited"
    /\ TrackingLoopWake

\* the tracker thread leaves its loop: tracking_enabled is False
TrackerThreadEnds ==
    /\ bot.pc # "exited"
    /\ tracker.pc = "wake"
    /\ ~tracker.tracking_enabled
    /\ tracker' = [tracker EXCEPT !.pc = "ended"]
    /\ UNCHANGED <<pool, bot, clock, signals_db, storage, engineVars, confluenceVars,
                   scannerVars, notifierVars>>

\* the tracker thread, one update_signal_price of the tick up to its save: no
\* ticker and nothing changes, else the record is updated in memory
TickUpdateBegins ==
    /\ bot.pc # "exited"
    /\ tracker.pc = "updating"
    /\ tracker.todo # <<>>
    /\ storage.th["tracker"].pc = "idle"
    /\ \E ticker \in {None} \cup {Some(p) : p \in PriceChoices} :
         /\ signals_db' = update_signal_price(signals_db, Head(tracker.todo)[1],
                                              Head(tracker.todo)[2], ticker)
         /\ storage' = IF ticker = None \/ Head(tracker.todo)[1] \notin DOMAIN signals_db
                         THEN storage
                         ELSE [storage EXCEPT !.th["tracker"].pc = "open",
                                              !.th["tracker"].signal_id =
                                                  Some(Head(tracker.todo)[1])]
    /\ tracker' = [tracker EXCEPT !.todo = Tail(@)]
    /\ UNCHANGED <<pool, bot, clock, engineVars, confluenceVars, scannerVars, notifierVars>>

\* the tracker thread, the steps of _save_signals
TickSaves ==
    /\ bot.pc # "exited"
    /\ StoreOpen("tracker") \/ StoreDump("tracker") \/ StoreClose("tracker")

\* the tracker thread, the end of a tick: time.sleep(30)
TickEnds ==
    /\ bot.pc # "exited"
    /\ tracker.pc = "updating"
    /\ tracker.todo = <<>>
    /\ storage.th["tracker"].pc = "idle"
    /\ tracker' = [tracker EXCEPT !.pc = "wake", !.signals_to_remove = {},
                                  !.active_signals = @ \ tracker.signals_to_remove]
    /\ \E t \in ShutdownInstants :
         /\ t >= clock + 30
         /\ clock' = t
    /\ UNCHANGED <<pool, bot, signals_db, storage, engineVars, confluenceVars, scannerVars,
                   notifierVars>>

\* Ctrl+C ends run_continuous_scan
ShutdownInterrupt ==
    /\ storage.th["main"].pc = "idle"
    /\ KeyboardInterrupt

\* run(), finally: stop_background_tracking sets tracking_enabled = False and
\* calls tracker_thread.join(timeout=5)
StopBackgroundTracking ==
    /\ bot.pc = "interrupted"
    /\ bot' = [bot EXCEPT !.pc = "joining"]
    /\ tracker' = [tracker EXCEPT !.tracking_enabled = FALSE]
    /\ UNCHANGED <<pool, clock, signals_db, storage, engineVars, confluenceVars, scannerVars,
                   notifierVars>>

\* join(timeout=5) returns: the thread has ended, or 5 s have passed
JoinReturns ==
    /\ bot.pc = "joining"
    /\ bot' = [bot EXCEPT !.pc = "stopped"]
    /\ UNCHANGED <<pool, clock, engineVars, confluenceVars, scannerVars, notifierVars,
                   trackerVars>>

\* run() and main() return and the interpreter exits: a daemon thread still
\* running is abandoned where it is
ProcessExits ==
    /\ bot.pc = "stopped"
    /\ bot' = [bot EXCEPT !.pc = "exited"]
    /\ UNCHANGED <<pool, clock, engineVars, confluenceVars, scannerVars, notifierVars,
                   trackerVars>>

ShutdownNext ==
    \/ ShutdownRecord
    \/ TickBegins
    \/ TrackerThreadEnds
    \/ TickUpdateBegins
    \/ TickSaves
    \/ TickEnds
    \/ ShutdownInterrupt
    \/ StopBackgroundTracking
    \/ JoinReturns
    \/ ProcessExits
SpecShutdown == ShutdownInit /\ [][ShutdownNext]_vars

\* ---------------------------------------------------------------------------
\* The notifier alone: notify_signals_batch called with any list of Decisions
\* and any max_notify, at instants around the cooldown.
\* ---------------------------------------------------------------------------
NotifyCoins == {"AUSDT", "BUSDT"}
NotifyInstants == {0, 900, 901}
MaxNotifyChoices == {-1, 1, 2}
MaxBatch == 2

\* the Decisions a batch is made of and the batches
DecisionChoices(now) ==
    {analyze_coin([ExampleData EXCEPT !.symbol = c], min_score, now)[1] : c \in NotifyCoins}
BatchChoices(now) == UNION {[1..n -> DecisionChoices(now)] : n \in 0..MaxBatch}

NotifyInit ==
    /\ clock = 0
    /\ bot = BotStarted
    /\ pool = PoolIdle
    /\ EngineIdle /\ ConfluenceIdle /\ ScannerIdle /\ NotifierIdle /\ TrackerIdle

\* one call notify_signals_batch(signals, max_notify); ok[i] tells whether
\* send_message succeeds for the i-th signal sent
NotifyBatch ==
    /\ \E signals \in BatchChoices(clock), max_notify \in MaxNotifyChoices :
         \E ok \in [1..Len(signals) -> BOOLEAN] :
            LET done == notify_signals_batch(signals, max_notify, ok, sent_signals,
                                             delivered, clock)
            IN  /\ sent_signals' = done[1]
                /\ delivered' = done[2]
                /\ batch' = [signals |-> signals, max_notify |-> max_notify]
    /\ UNCHANGED <<pool, bot, clock, engineVars, confluenceVars, scannerVars, trackerVars>>

\* time passes between two calls
NotifyTick ==
    /\ \E t \in NotifyInstants :
         /\ t > clock
         /\ clock' = t
    /\ UNCHANGED <<pool, bot, engineVars, confluenceVars, scannerVars, notifierVars, trackerVars>>

NotifyNext == NotifyBatch \/ NotifyTick
SpecNotify == NotifyInit /\ [][NotifyNext]_vars

\* ---------------------------------------------------------------------------
\* Startup: PumpDetectorBot.run() calls initialize(), which validates the
\* configuration, creates the scanner, the notifier and the tracker, sends the
\* startup message and starts the tracker thread; then the scan loop runs.
\* ---------------------------------------------------------------------------
\* TELEGRAM_BOT_TOKEN and TELEGRAM_CHAT_ID as the environment gives them, ''
\* when they are not set
ConfigChoices ==
    [telegram_bot_token : {"", "token"}, telegram_chat_id : {"", "chat"}]

\* a validation that forgets the chat id
validate_config_token_only(config) == config.telegram_bot_token # ""
\* validate_config: an error for each of the two credentials that is empty
validate_config(config) == config.telegram_bot_token # "" /\ config.telegram_chat_id # ""

\* PumpDetectorBot.__init__
BotNew(config) ==
    [ config |-> config, pc |-> "new", scanner |-> FALSE, notifier |-> FALSE,
      tracker |-> FALSE, tracker_thread |-> FALSE, startup_message |-> "unsent",
      running |-> FALSE ]

StartupInit ==
    /\ clock = 0
    /\ bot \in {BotNew(config) : config \in ConfigChoices}
    /\ pool = PoolIdle
    /\ EngineIdle /\ ConfluenceIdle /\ ScannerIdle /\ NotifierIdle /\ TrackerIdle

\* initialize: if not validate_config(): return False, and run() returns
Validate ==
    /\ bot.pc = "new"
    /\ bot' = [bot EXCEPT !.pc = IF validate_config(bot.config) THEN "validated" ELSE "exited"]
    /\ UNCHANGED <<pool, clock, engineVars, confluenceVars, scannerVars, notifierVars, trackerVars>>

\* initialize: MarketScanner, TelegramNotifierSync and SignalTracker are created
CreateComponents ==
    /\ bot.pc = "validated"
    /\ bot' = [bot EXCEPT !.pc = "created", !.scanner = TRUE, !.notifier = TRUE,
                          !.tracker = TRUE]
    /\ signals_db' = _load_signals(storage.file)
    /\ UNCHANGED <<pool, clock, tracker, storage, engineVars, confluenceVars, scannerVars,
                   notifierVars>>

\* initialize: send_startup_message, whose failure is logged and ignored
SendStartupMessage ==
    /\ bot.pc = "created"
    /\ \E outcome \in {"sent", "failed"} :
         bot' = [bot EXCEPT !.pc = "notified", !.startup_message = outcome]
    /\ UNCHANGED <<pool, clock, engineVars, confluenceVars, scannerVars, notifierVars, trackerVars>>

\* initialize: start_background_tracking, return True; run sets running and
\* enters run_continuous_scan
StartTrackingAndRun ==
    /\ bot.pc = "notified"
    /\ bot' = [bot EXCEPT !.pc = "scanning", !.tracker_thread = TRUE, !.running = TRUE]
    /\ UNCHANGED <<pool, clock, engineVars, confluenceVars, scannerVars, notifierVars, trackerVars>>

\* run_continuous_scan with handle_pump_signals as its callback, followed
\* through the cycles that start by MaxStartupClock
MaxStartupClock == 0
RunContinuousScan ==
    /\ bot.pc = "scanning"
    /\ clock <= MaxStartupClock
    /\ PipelineNext

StartupNext ==
    Validate \/ CreateComponents \/ SendStartupMessage \/ StartTrackingAndRun \/ RunContinuousScan
SpecStartup == StartupInit /\ [][StartupNext]_vars

(***************************************************************************)
(* Properties of the scoring engine (SpecScore)                            *)
(***************************************************************************)
Kinds(ps) == [i \in 1..Len(ps.signals) |-> ps.signals[i].signal_type]
Strengths(ps) == [i \in 1..Len(ps.signals) |-> ps.signals[i].strength]

\* C7: on a snapshot on which no detector fires, analyze_coin returns None,
\* whatever min_score is (0 included).
Thm_C7_NoSignalNoDecision ==
    \A i \in 1..Len(results) :
        detect_signals(coin_data, clock) = <<>> => results[i] = None

Wit_C7_NoSignalMinZero ==
    /\ min_score = 0
    /\ coin_data.price > 0
    /\ detect_signals(coin_data, clock) = <<>>
    /\ Len(results) = 2
    /\ results[1] = None /\ results[2] = None

\* a result without the clock readings it carries
NoTime(r) == [f \in DOMAIN r \ {"timestamp"} |-> r[f]]
StripTime(res) ==
    [i \in 1..Len(res) |->
        [NoTime(res[i]) EXCEPT !.signals =
            [j \in 1..Len(res[i].signals) |-> NoTime(res[i].signals[j])]]]

Cex_C9_ExampleAsClaimed ==
    (coin_data = ExampleData /\ Len(results) >= 1) =>
        /\ results[1] # None
        /\ Kinds(results[1][1]) = <<"EXTREME_VOLUME_SPIKE", "STRONG_5M_MOMENTUM">>
        /\ Strengths(results[1][1]) = <<950, 600>>
        /\ results[1][1].score.num = 100 * results[1][1].score.den
        /\ results[1][1].confidence = "VERY_HIGH"

\* C9, amended: the example snapshot (ratio 6x, below the 8x of the extreme
\* tier) yields exactly two signals, VOLUME_SPIKE and STRONG_5M_MOMENTUM
\* (strength 60), with weights 1.2 and 1.1 and confluence bonus 6.  With
\* volume_1h_ago >= 300 (no acceleration bonus) VOLUME_SPIKE has strength 75,
\* base 78, final score 84, tier HIGH, and a Decision fires exactly for a
\* minimum <= 84; with volume_1h_ago < 300 it has strength 85, base 84, final
\* score 90, tier VERY_HIGH, and a Decision fires exactly for a minimum <= 90.
Thm_C9_ExampleAsComputed ==
    \A i \in 1..Len(results) :
        /\ coin_data = ExampleData =>
              /\ Kinds([signals |-> detect_signals(coin_data, clock)])
                    = <<"VOLUME_SPIKE", "STRONG_5M_MOMENTUM">>
              /\ signal_weights("VOLUME_SPIKE") = 24 /\ signal_weights("STRONG_5M_MOMENTUM") = 22
              /\ IF min_score <= 84
                   THEN /\ results[i] # None
                        /\ Kinds(results[i][1]) = <<"VOLUME_SPIKE", "STRONG_5M_MOMENTUM">>
                        /\ Strengths(results[i][1]) = <<750, 600>>
                        /\ results[i][1].score = Score(84 * 400, 400)
                        /\ results[i][1].confidence = "HIGH"
                   ELSE results[i] = None
        /\ coin_data = [ExampleData EXCEPT !.volume_1h_ago = 0] =>
              IF min_score <= 90
                THEN /\ results[i] # None
                     /\ Kinds(results[i][1]) = <<"VOLUME_SPIKE", "STRONG_5M_MOMENTUM">>
                     /\ Strengths(results[i][1]) = <<850, 600>>
                     /\ results[i][1].score = Score(90 * 400, 400)
                     /\ results[i][1].confidence = "VERY_HIGH"
                ELSE results[i] = None

Wit_C9_ExampleScored ==
    /\ coin_data = ExampleData
    /\ min_score = 80
    /\ Len(results) >= 1
    /\ results[1] # None

(***************************************************************************)
(* Properties of the market scanner (SpecScan)                             *)
(***************************************************************************)
\* a ticker moves enough for one of the two movement branches of the filter
Moves(t) ==
    \/ Abs(t.price_change_24h) > 80
    \/ t.volume_24h > 2 * 2000000 /\ Abs(t.price_change_24h) > 30
\* a ticker passes the two basic tests of the filter
BasicOk(t) == t.volume_24h >= 2000000 /\ t.price <= 100000
TickerOf(tickers, s) == {tickers[i] : i \in {j \in 1..Len(tickers) : tickers[j].symbol = s}}

\* C1: in every scan cycle, every symbol handed to deep analysis has a ticker
\* with volume_24h >= min_volume_24h and price <= max_price and one of:
\* |24h change| > 8 %, volume_24h > 2 x min_volume_24h and |24h change| > 3 %,
\* or the symbol on the watchlist at filter time; and the filter result, which
\* is what is handed over, holds no other symbol.
Thm_C1_StrictPreFilter ==
    [][ /\ scan'.pc = "filtered" =>
            \A s \in Range(scan'.filtered_symbols) :
               \E t \in TickerOf(scan.all_tickers, s) :
                  BasicOk(t) /\ (Moves(t) \/ s \in DOMAIN watchlist)
        /\ scan'.scanned # scan.scanned =>
            /\ scan'.scanned \subseteq Range(scan.filtered_symbols)
            /\ \A s \in scan'.scanned :
                  \E t \in TickerOf(scan.all_tickers, s) :
                     BasicOk(t) /\ (Moves(t) \/ s \in DOMAIN watchlist) ]_vars
\* a cycle in which one ticker is rejected and another symbol is deep-analysed
\* only because it is on the watchlist
Wit_C1_RejectedAndWatchlisted ==
    /\ scan.pc = "analysed"
    /\ \E i, j \in 1..Len(scan.all_tickers) :
         /\ scan.all_tickers[i].symbol \notin scan.scanned
         /\ scan.all_tickers[j].symbol \in scan.scanned
         /\ ~Moves(scan.all_tickers[j])

\* C10: a symbol put on the watchlist at T0 and not refreshed since is kept by
\* the filter through the watchlist branch in a scan at T0 + 20 min, and in a
\* scan at T0 + 31 min it is off the watchlist and not kept by that branch.
\* (scan.decided[s] is the time of the last Decision for s, the only thing that
\* puts s on the watchlist or refreshes it.)
Cex_C10_KeptAt20mPurgedAt31m ==
    scan.pc = "tickers" =>
      \A t \in Range(scan.all_tickers) :
         (t.symbol \in DOMAIN scan.decided /\ BasicOk(t) /\ ~Moves(t)) =>
            LET age == clock - scan.decided[t.symbol]
                kept == t.symbol \in Range(quick_filter(scan.all_tickers, watchlist))
            IN  /\ age = 20 * 60 => t.symbol \in DOMAIN watchlist /\ kept
                /\ age = 31 * 60 => t.symbol \notin DOMAIN watchlist /\ ~kept

(***************************************************************************)
(* Properties of the outcome tracker (SpecTrack)                           *)
(***************************************************************************)
\* sample k of record id is written in this step
SampleWritten(id, k) ==
    /\ id \in DOMAIN signals_db /\ id \in DOMAIN signals_db'
    /\ signals_db[id].price[k] = None
    /\ signals_db'[id].price[k] # None

\* C2: for every record with timestamp T and every offset k of 5, 15, 30, 60,
\* 240, 1440 minutes, the step that writes the k-sample happens at a time
\* >= T + k minutes; the 1h sample is never written before T + 3600 s.
Thm_C2_SampleNotBeforeOffset ==
    [][ \A id \in DOMAIN signals_db : \A k \in {5, 15, 30, 60, 240, 1440} :
          SampleWritten(id, k) =>
             /\ clock >= signals_db[id].timestamp + k * 60
             /\ k = 60 => clock - signals_db[id].timestamp >= 3600 ]_vars
\* the 1h sample written exactly at T + 1h, the 5m one still unset from a
\* failed fetch
Wit_C2_HourSampleAtTheHour ==
    \E id \in DOMAIN signals_db :
       /\ signals_db[id].price[60] # None
       /\ signals_db[id].price[5] = None
       /\ clock = signals_db[id].timestamp + 3600

\* C3: success is unset exactly as long as the 1h sample is unset; once set it
\* equals (change_1h >= 3.0) with change_1h the percent change from the entry
\* price, so entry 10.00 and 10.25 at 1h give 2.5 % and success = false; it is
\* set in the step that writes the 1h sample and no step that writes another
\* sample changes it.
Thm_C3_SuccessIsHourOutcome ==
    /\ [](\A id \in DOMAIN signals_db :
            LET r == signals_db[id]
            IN  /\ (r.success = None) <=> (r.price[60] = None)
                /\ (r.price[60] = None) <=> (r.change[60] = None)
                /\ r.price[60] # None =>
                      /\ r.change[60][1].den = r.entry_price
                      /\ r.change[60][1].num = (r.price[60][1] - r.entry_price) * 100
                      /\ r.success[1] = (r.change[60][1].num >= 3 * r.change[60][1].den)
                /\ (r.entry_price = 1000 /\ r.price[60] = Some(1025)) =>
                      /\ r.change[60][1].num * 2 = 5 * r.change[60][1].den
                      /\ r.success = Some(FALSE))
    /\ [][ \A id \in DOMAIN signals_db \cap DOMAIN signals_db' :
             /\ signals_db'[id].success # signals_db[id].success =>
                   \/ SampleWritten(id, 60)
                   \/ signals_db'[id].price[60] = None
             /\ (\E k \in Intervals \ {60} : SampleWritten(id, k)) =>
                   signals_db'[id].success = signals_db[id].success ]_vars
\* the example: entry 1000, 1025 at 1h, success false, and a later sample above
\* the threshold
Wit_C3_ExampleBelowThreshold ==
    \E id \in DOMAIN signals_db :
       /\ signals_db[id].entry_price = 1000
       /\ signals_db[id].price[60] = Some(1025)
       /\ signals_db[id].success = Some(FALSE)
       /\ signals_db[id].price[240] = Some(1030)

\* C4: in every step that writes a sample of a record, max_gain does not
\* decrease and max_loss does not increase.
Thm_C4_MaxGainLossMonotone ==
    [][ \A id \in DOMAIN signals_db :
          (\E k \in Intervals : SampleWritten(id, k)) =>
             /\ signals_db'[id].max_gain # None /\ signals_db'[id].max_loss # None
             /\ signals_db[id].max_gain # None =>
                   PctGE(signals_db'[id].max_gain[1], signals_db[id].max_gain[1])
             /\ signals_db[id].max_loss # None =>
                   PctGE(signals_db[id].max_loss[1], signals_db'[id].max_loss[1]) ]_vars
\* a record whose latest sample lies strictly between max_loss and max_gain
Wit_C4_SampleBetweenExtremes ==
    \E id \in DOMAIN signals_db :
       /\ signals_db[id].price[5] = Some(1030)
       /\ signals_db[id].price[15] = Some(970)
       /\ signals_db[id].price[30] = Some(1025)
       /\ signals_db[id].max_gain = Some(Pct(3000, 1000))
       /\ signals_db[id].max_loss = Some(Pct(-3000, 1000))

(***************************************************************************)
(* Properties of the whole pipeline (SpecPipeline)                         *)
(***************************************************************************)
\* the Decisions scan_symbol got for symbol s in the cycle under way
DecisionsFor(s) == {x \in Range(scan.pump_signals) : x.coin = s}
\* the combined score of a snapshot, computed at the time of the cycle
ScoreOf(cd) == calculate_confluence_score(detect_signals(cd, clock)).score

\* C6: analyze_coin gives a Decision only for a snapshot whose combined score
\* is >= min_score and gives None, without an error, for every snapshot whose
\* score is below min_score; so every Decision of a cycle, the Decision
\* behind every watchlist entry made in the cycle, every record of the
\* outcome store and every message of the notifier has score >= min_score.
Thm_C6_DecisionOnlyAtMinScore ==
    /\ scan.pc = "analysed" =>
          \A s \in scan.scanned :
             /\ scan.coin_data[s] = None => DecisionsFor(s) = {}
             /\ scan.coin_data[s] # None =>
                   /\ ScoreBelow(ScoreOf(scan.coin_data[s][1]), min_score) => DecisionsFor(s) = {}
                   /\ \A x \in DecisionsFor(s) : x.score = ScoreOf(scan.coin_data[s][1])
    /\ \A x \in Range(scan.pump_signals) : ScoreAtLeast(x.score, min_score)
    /\ \A s \in DOMAIN watchlist :
          (watchlist[s] = clock /\ scan.pc \in {"analysed", "returned", "handled"}) =>
             \E x \in DecisionsFor(s) : ScoreAtLeast(x.score, min_score)
    /\ \A id \in DOMAIN signals_db : ScoreAtLeast(signals_db[id].score, min_score)
    /\ \A i \in 1..Len(delivered) : ScoreAtLeast(delivered[i].score, min_score)
\* a cycle with min_score 85 in which the snapshot scoring 84 gives no Decision
\* and the one scoring 90 gives one, after a cycle whose Decision was recorded
\* and notified
Wit_C6_BelowAndAboveMinScore ==
    /\ min_score = 85
    /\ scan.pc = "analysed"
    /\ "AUSDT" \in scan.scanned
    /\ scan.coin_data["AUSDT"] = Some([ExampleData EXCEPT !.symbol = "AUSDT"])
    /\ DecisionsFor("AUSDT") = {}
    /\ \E x \in DecisionsFor("BUSDT") : x.score = Score(90 * 400, 400)
    /\ signals_db # EmptyMap
    /\ delivered # <<>>

\* a step of the tracker loop (record_signal leaves pc and todo alone)
TrackerStep == tracker'.pc # tracker.pc \/ tracker'.todo # tracker.todo

\* C11: each of the six samples of a record starts unset, and once price_X is
\* set no later step of the tracker loop changes price_X or change_X.
Thm_C11_SampleWrittenOnce ==
    [][ /\ \A id \in DOMAIN signals_db' \ DOMAIN signals_db : \A k \in Intervals :
             signals_db'[id].price[k] = None /\ signals_db'[id].change[k] = None
        /\ TrackerStep =>
             \A id \in DOMAIN signals_db : \A k \in Intervals :
                signals_db[id].price[k] # None =>
                   /\ id \in DOMAIN signals_db'
                   /\ signals_db'[id].price[k] = signals_db[id].price[k]
                   /\ signals_db'[id].change[k] = signals_db[id].change[k] ]_vars
\* a tick about to retry the 15m sample of a record whose 30m sample was
\* written by an earlier tick
Wit_C11_LaterTickSampleSet ==
    \E id \in DOMAIN signals_db :
       /\ tracker.pc = "updating"
       /\ tracker.todo # <<>>
       /\ Head(tracker.todo) = <<id, 15>>
       /\ signals_db[id].price[30] = Some(1030)

\* a record is TERMINAL: 24 h or more have passed since its timestamp
Terminal(id) == clock - signals_db[id].timestamp >= 24 * 3600

\* C12: once a record is TERMINAL no step of the tracker loop changes any of
\* its fields, whichever samples are still unset, and the record stays in the
\* store.
Cex_C12_TerminalNeverMutated ==
    [][ TrackerStep =>
          \A id \in DOMAIN signals_db :
             Terminal(id) => id \in DOMAIN signals_db' /\ signals_db'[id] = signals_db[id] ]_vars

\* C13: samples are written in the order 5m, 15m, 30m, 1h, 4h, 24h: the step
\* that writes the sample of an offset finds the sample of every smaller
\* offset set, whatever fetches succeed or fail.
Cex_C13_SamplesInOffsetOrder ==
    [][ \A id \in DOMAIN signals_db : \A k \in Intervals :
          SampleWritten(id, k) =>
             \A j \in Intervals : j < k => signals_db[id].price[j] # None ]_vars

\* the fields of a record that record_signal sets
Frozen(r) == <<r.id, r.coin, r.timestamp, r.entry_price, r.score, r.confidence, r.signals>>

\* C14: whatever tracker updates and record_signal calls follow its creation,
\* a record keeps its id, coin, timestamp, entry_price, score, confidence and
\* signal kinds; update_signal_price changes only samples, changes, max_gain,
\* max_loss and success, and every change is relative to that entry price.
Cex_C14_CreationFieldsFrozen ==
    [][ \A id \in DOMAIN signals_db \cap DOMAIN signals_db' :
          /\ Frozen(signals_db'[id]) = Frozen(signals_db[id])
          /\ \A k \in Intervals :
                SampleWritten(id, k) =>
                   signals_db'[id].change[k] =
                      Some(Pct((signals_db'[id].price[k][1] - signals_db[id].entry_price) * 100,
                               signals_db[id].entry_price)) ]_vars

\* C15: record_signal on the main thread and update_signal_price on the tracker
\* thread are serialized on the storage write path: whenever neither is under
\* way the file is not corrupt and holds the store that is in memory, every
\* record and sample the two operations completed included.
Cex_C15_WritesSerialized ==
    AllIdle(storage.th) =>
        /\ storage.file.kind # "corrupt"
        /\ storage.file.kind = "json" => storage.file.data = signals_db

\* C16: a create is append-only: a record_signal that changes the store adds
\* exactly one record under an id that was not in the store, and every record
\* that was in the store is still there as it was.
Cex_C16_CreateAppendOnly ==
    [][(~TrackerStep /\ signals_db' # signals_db) =>
          /\ Cardinality(DOMAIN signals_db') = Cardinality(DOMAIN signals_db) + 1
          /\ \A id \in DOMAIN signals_db :
                id \in DOMAIN signals_db' /\ signals_db'[id] = signals_db[id]]_vars

\* every record of old is in new with every sample old has for it
Present(old, new) ==
    \A id \in DOMAIN old :
        /\ id \in DOMAIN new
        /\ \A k \in Intervals : old[id].price[k] # None => new[id].price[k] = old[id].price[k]
\* a step that ends with no thread in an operation and another store in memory:
\* the restart after a crash
CrashStep == AllIdle(storage'.th) /\ signals_db' # signals_db

\* C17: a crash, in the middle of a file write included, followed by a restart
\* and _load_signals loses at most the mutation in flight: with one operation
\* under way at most and a file no concurrent write has damaged, every record
\* and sample whose operation completed before the crash is in the store
\* after the reload.
Cex_C17_CrashLosesOnlyInFlight ==
    [][(/\ CrashStep
        /\ Cardinality({t \in Threads : storage.th[t].pc # "idle"}) <= 1
        /\ storage.file.kind # "corrupt") => Present(storage.completed, signals_db')]_vars

\* C18: one call of notify_signals_batch sends at most max_notify
\* notifications, whatever the list of Decisions and whatever max_notify.
Cex_C18_AtMostMaxNotify ==
    [][Len(delivered') > Len(delivered) =>
          Len(delivered') - Len(delivered) <= batch'.max_notify]_vars

\* C19: over any sequence of notify_signals_batch calls no two alerts for one
\* symbol go out successfully less than notification_cooldown (900 s) apart,
\* batches that list a symbol more than once included.
Thm_C19_CooldownBetweenAlerts ==
    \A i, j \in 1..Len(delivered) :
        (i < j /\ delivered[i].coin = delivered[j].coin) =>
            delivered[j].time - delivered[i].time >= notification_cooldown
\* AUSDT alerted at 0 and again at 901 and not in between, the last batch
\* listing AUSDT twice with room for both
Wit_C19_DuplicateInBatchSentOnce ==
    /\ clock = 901
    /\ Len(batch.signals) = 2
    /\ batch.signals[1].coin = "AUSDT" /\ batch.signals[2].coin = "AUSDT"
    /\ batch.max_notify = 2
    /\ Len(delivered) = 2
    /\ delivered[1].coin = "AUSDT" /\ delivered[1].time = 0
    /\ delivered[2].coin = "AUSDT" /\ delivered[2].time = 901

CredentialsAbsent ==
    bot.config.telegram_bot_token = "" \/ bot.config.telegram_chat_id = ""

\* C20: with the Telegram bot token or the chat id absent the process does not
\* start: no scanner, notifier or tracker is created, the tracker thread is
\* never started, no scan cycle runs and no notification is sent.
Thm_C20_NoStartWithoutCredentials ==
    CredentialsAbsent =>
        /\ ~bot.scanner /\ ~bot.notifier /\ ~bot.tracker
        /\ ~bot.tracker_thread /\ ~bot.running
        /\ bot.startup_message = "unsent"
        /\ scan = ScanIdle /\ ScannerIdle
        /\ NotifierIdle
        /\ TrackerIdle
\* the token is set, the chat id is not, and run() has returned
Wit_C20_ExitedWithoutChatId ==
    /\ bot.config.telegram_bot_token = "token"
    /\ bot.config.telegram_chat_id = ""
    /\ bot.pc = "exited"

\* the Decision analyze_coin makes of the snapshot of x in this cycle, if any
DecisionOf(x) ==
    IF scan.coin_data[x] = None THEN None
    ELSE analyze_coin(scan.coin_data[x][1], min_score, clock)

\* C21: the failure of one symbol's deep analysis excludes only that symbol:
\* the batch returns, with the Decision of every symbol of the batch whose own
\* analysis gave one.
Thm_C21_FailureExcludesOnlyThatSymbol ==
    scan.pc = "analysed" =>
        \A x \in scan.scanned :
            DecisionOf(x) # None =>
                \E i \in 1..Len(scan.pump_signals) : scan.pump_signals[i] = DecisionOf(x)[1]
\* AUSDT and BUSDT in one batch, the snapshot of AUSDT absent, the Decision
\* of BUSDT returned
Wit_C21_OneFailedOtherReturned ==
    /\ scan.pc = "analysed"
    /\ scan.scanned = {"AUSDT", "BUSDT"}
    /\ scan.coin_data["AUSDT"] = None
    /\ Len(scan.pump_signals) = 1
    /\ scan.pump_signals[1].coin = "BUSDT"

Stuck == \E x \in DOMAIN pool.futures : pool.futures[x].pc = "stuck"

\* C22: a symbol whose deep analysis never returns does not stall the batch:
\* scan_symbols_batch returns all the same.
Cex_C22_StuckSymbolBatchCompletes == Stuck ~> scan.pc = "analysed"

\* C26: the watchlist is written by the scan loop only: no worker of the
\* executor is ever at a write of the watchlist, let alone two at a time.
Cex_C26_OnlyScanLoopWritesWatchlist ==
    \A x \in DOMAIN pool.futures : pool.futures[x].pc # "write"

\* C23: a refresh whose fetch succeeds replaces the whole symbol universe by the
\* fetched list; one whose fetch fails (an empty result) leaves the universe
\* and the time of the last refresh as they were; the cycle then works on the
\* universe as it is after that, the retained one included.
Thm_C23_RefreshReplacesOrRetains ==
    [][(scan.pc = "idle" /\ scan'.pc # "idle") =>
          /\ IF scan'.symbols = None
                THEN all_symbols' = all_symbols /\ last_symbol_refresh' = last_symbol_refresh
                ELSE IF scan'.symbols[1] # <<>>
                       THEN all_symbols' = scan'.symbols[1] /\ last_symbol_refresh' = Some(clock)
                       ELSE all_symbols' = all_symbols /\ last_symbol_refresh' = last_symbol_refresh
          /\ all_symbols' # <<>> =>
                /\ scan'.pc = "tickers"
                /\ \A i \in 1..Len(scan'.all_tickers) :
                      scan'.all_tickers[i].symbol \in Range(all_symbols')]_vars
\* the refresh was due at 3690, the fetch failed, and the cycle has the
\* tickers of the universe fetched at 0
Wit_C23_StaleSetRetained ==
    /\ clock = 3690
    /\ scan.pc = "tickers"
    /\ scan.symbols = Some(<<>>)
    /\ all_symbols = <<"AUSDT", "BUSDT">>
    /\ last_symbol_refresh = Some(0)
    /\ scan.all_tickers # <<>>

\* how many times x is in the sequence s
Occurrences(s, x) == Cardinality({i \in 1..Len(s) : s[i] = x})

\* C24: the list scan_market returns is ordered by score, highest first, and is
\* a permutation of the Decisions the deep-analysis stage collected.
Thm_C24_RankedPermutation ==
    [][(scan.pc = "analysed" /\ scan'.pc = "returned") =>
          /\ \A i \in 1..(Len(scan'.pump_signals) - 1) :
                ScoreGE(scan'.pump_signals[i].score, scan'.pump_signals[i + 1].score)
          /\ Len(scan'.pump_signals) = Len(scan.pump_signals)
          /\ \A x \in Range(scan.pump_signals) \cup Range(scan'.pump_signals) :
                Occurrences(scan'.pump_signals, x) = Occurrences(scan.pump_signals, x)]_vars
\* two Decisions returned, of different scores, the higher one first
Wit_C24_TwoScoresRanked ==
    /\ scan.pc = "returned"
    /\ Len(scan.pump_signals) = 2
    /\ ~ScoreGE(scan.pump_signals[2].score, scan.pump_signals[1].score)

\* C25: deep analysis puts a symbol with a Decision on the watchlist at the
\* time of that Decision, refreshing an entry that was there; a symbol whose
\* analysis gave no Decision, failed or was not made is neither added nor
\* refreshed.
Thm_C25_WatchlistFollowsDecisions ==
    [][(scan.pc = "filtered" /\ scan'.pc = "analysed") =>
          \A x \in Range(all_symbols) \cup DOMAIN watchlist \cup DOMAIN watchlist' :
             LET decision == IF x \in scan'.scanned /\ scan'.coin_data[x] # None
                               THEN analyze_coin(scan'.coin_data[x][1], min_score, clock)
                               ELSE None
             IN  IF decision # None
                   THEN x \in DOMAIN watchlist' /\ watchlist'[x] = decision[1].timestamp
                   ELSE /\ x \in DOMAIN watchlist' <=> x \in DOMAIN watchlist
                        /\ x \in DOMAIN watchlist => watchlist'[x] = watchlist[x]]_vars
\* at 1200 AUSDT has a Decision and BUSDT, analysed too, has none: BUSDT keeps
\* its entry of 0
Wit_C25_RefreshedAndNotRefreshed ==
    /\ clock = 1200
    /\ scan.pc = "analysed"
    /\ scan.scanned = {"AUSDT", "BUSDT"}
    /\ DecisionOf("AUSDT") # None /\ DecisionOf("BUSDT") = None
    /\ DOMAIN watchlist = {"AUSDT", "BUSDT"}
    /\ watchlist["AUSDT"] = 1200 /\ watchlist["BUSDT"] = 0

\* C27: whenever scan_market returns, with Decisions, with none or with no
\* candidate, no entry of the watchlist is older than watchlist_timeout.
Cex_C27_PurgedWheneverScanReturns ==
    scan.pc = "returned" =>
        \A x \in DOMAIN watchlist : ~(clock - watchlist[x] > watchlist_timeout)

\* C28: whatever the outcome of a cycle, the loop goes on: from the return of
\* scan_market at an instant t the loop is at the top of a next cycle
\* scan_interval or more later, unless the user has interrupted it.
Thm_C28_LoopGoesOn ==
    \A t \in {0} :
        (scan.pc = "returned" /\ clock = t /\ bot.pc = "scanning")
            ~> \/ scan.pc = "idle" /\ clock >= t + scan_interval /\ bot.pc = "scanning"
               \/ bot.pc = "interrupted"
\* the loop at the top of its second cycle with no symbols, nothing recorded
\* and nothing sent: a cycle without symbols behind it
Wit_C28_NextCycleAfterEmptyCycle ==
    /\ clock = scan_interval
    /\ scan.pc = "idle"
    /\ bot.pc = "scanning"
    /\ all_symbols = <<>>
    /\ signals_db = EmptyMap

\* C29: shutdown is graceful: when the process has exited the tracker thread
\* is in no tick and in no store write, and the file is not left truncated.
Cex_C29_NoExitInsideATick ==
    bot.pc = "exited" =>
        /\ tracker.pc \in {"wake", "ended"}
        /\ storage.th["tracker"].pc = "idle"
        /\ storage.file.kind # "empty"


(***************************************************************************)
(* calculate_confluence_score called on long signal lists                  *)
(***************************************************************************)
MaxRun == 4          \* signals of one kind and strength in a row
RunKinds == {"SHORT_BUILDUP", "LONG_UNWINDING", "EXTREME_TAKER_SELLING", "OVERCROWDED_LONGS", "ELEVATED_VOLUME", "SHORT_LIQUIDATION_CASCADE"}
RunStrengths == {750, 1000}

\* n signals of kind k and strength st
Run(k, st, n) == [i \in 1..n |-> [MarketSignal(k, st, 0, <<>>) EXCEPT !.coin = "BTCUSDT"]]

\* the caller's list: a run of one kind and strength, then a run of another
RunsInit ==
    /\ clock = 0
    /\ bot = BotStarted
    /\ pool = PoolIdle
    /\ EngineIdle /\ ScannerIdle /\ NotifierIdle /\ TrackerIdle
    /\ confluence = <<>>
    /\ \E k1 \in RunKinds, k2 \in RunKinds, s1 \in RunStrengths, s2 \in RunStrengths :
          \E a \in 0..MaxRun, b \in 0..MaxRun :
             /\ a + b >= 1
             /\ sig_list = Run(k1, s1, a) \o Run(k2, s2, b)

SpecConfluenceRuns == RunsInit /\ [][CalculateConfluence]_vars

\* the kinds the weight table names
TableKinds ==
    {"EXTREME_VOLUME_SPIKE", "VOLUME_SPIKE", "EXTREME_BUY_PRESSURE", "SHORT_COVERING",
     "LONG_BUILDUP", "EXTREME_TAKER_BUYING", "AGGRESSIVE_TAKER_BUYING", "SHORT_SQUEEZE_SETUP",
     "SHORT_LIQUIDATION_CASCADE", "HIGH_SHORT_INTEREST", "LARGE_LIQUIDATION_ZONE",
     "MOMENTUM_ACCELERATION", "STRONG_5M_MOMENTUM", "BREAKOUT_PATTERN", "OPEN_INTEREST_SURGE",
     "LARGE_BUY_ORDERS", "SHORT_BUILDUP", "LONG_UNWINDING", "EXTREME_TAKER_SELLING",
     "OVERCROWDED_LONGS"}
BearishKinds == {"SHORT_BUILDUP", "LONG_UNWINDING", "EXTREME_TAKER_SELLING", "OVERCROWDED_LONGS"}

\* C30: for every non-empty signal list the score is
\* min(100, (sum of strength x weight) / count + min(20, 3 x count)), the
\* weight of a kind outside the table being 1.0 and the weight of each of
\* the four bearish kinds being below 1.0; the tier is VERY_HIGH from 85,
\* HIGH from 75, MEDIUM from 65 and LOW below.
Thm_C30_ScoreFormulaAndTiers ==
    (confluence # <<>> /\ sig_list # <<>>) =>
        LET n == Len(sig_list)
            r == confluence[1]
            \* in 1/200: strength is in tenths, a weight in twentieths
            sum == SumSeq([i \in 1..n |->
                      sig_list[i].strength * signal_weights(sig_list[i].signal_type)])
            bonus == IF 3 * n < 20 THEN 3 * n ELSE 20
            uncapped == sum + bonus * 200 * n
            expected == IF uncapped > 100 * 200 * n THEN 100 * 200 * n ELSE uncapped
        IN  /\ r.score.den > 0
            /\ r.score.num * 200 * n = expected * r.score.den
            /\ \A i \in 1..n :
                  /\ sig_list[i].signal_type \in BearishKinds
                        => signal_weights(sig_list[i].signal_type) < 20
                  /\ sig_list[i].signal_type \notin TableKinds
                        => signal_weights(sig_list[i].signal_type) = 20
            /\ r.confidence =
                  IF expected >= 85 * 200 * n THEN "VERY_HIGH"
                  ELSE IF expected >= 75 * 200 * n THEN "HIGH"
                  ELSE IF expected >= 65 * 200 * n THEN "MEDIUM"
                  ELSE "LOW"

\* seven signals or more of a bearish kind: 75 x 0.6 + 20 is 65, MEDIUM
Wit_C30_BonusCappedAtMediumThreshold ==
    /\ confluence # <<>>
    /\ Len(sig_list) >= 7
    /\ \A i \in 1..Len(sig_list) :
          sig_list[i].signal_type = "OVERCROWDED_LONGS" /\ sig_list[i].strength = 750
    /\ confluence[1].score.num = 65 * confluence[1].score.den
    /\ confluence[1].confidence = "MEDIUM"


\* C31: a record is excluded from active tracking once 24 h have elapsed
\* since its creation: at every time get_active_signals returns exactly the
\* records not older than 24 h.
Cex_C31_ActiveSignalsYoungerThan24h ==
    get_active_signals(signals_db) =
        {signals_db[id] : id \in {x \in DOMAIN signals_db :
                                    clock - signals_db[x].timestamp <= 1440 * 60}}


\* a step that is record_signal for a Decision of this instant
IsRecordOf(cd) == signals_db' = record_signal(signals_db, analyze_coin(cd, min_score, clock)[1])
\* a step that is update_signal_price for a due sample and a fetched price
IsUpdateOf(i, p) ==
    LET u == due_updates(signals_db, clock)[i]
    IN  signals_db' = update_signal_price(signals_db, u[1], u[2], Some(p))

\* C32: when the write of the store file fails during record_signal or
\* update_signal_price the caller sees no error (record_signal goes on to
\* register the id as active), the record or sample stays in memory, and a
\* write that succeeds leaves the file holding the whole store in memory,
\* the mutations whose write failed included.
Thm_C32_WriteFailureKeepsMemory ==
    [][clock' = clock =>
         /\ \/ \E cd \in TrackedChoices : IsRecordOf(cd)
            \/ \E i \in DOMAIN due_updates(signals_db, clock), p \in PriceChoices : IsUpdateOf(i, p)
         /\ DOMAIN signals_db \subseteq DOMAIN signals_db'
         /\ (\E cd \in TrackedChoices : IsRecordOf(cd))
               => \E cd \in TrackedChoices :
                     /\ IsRecordOf(cd)
                     /\ signal_id(analyze_coin(cd, min_score, clock)[1]) \in tracker'.active_signals
         /\ ~storage'.save_error => storage'.file = StorageFile("json", signals_db')]_vars

\* the write of the second record failed at open: the file holds the first
\* record alone, the memory both, and both ids are registered as active
Wit_C32_WriteFailedMemoryKept ==
    /\ storage.save_error
    /\ storage.file.kind = "json"
    /\ Cardinality(DOMAIN storage.file.data) = 1
    /\ Cardinality(DOMAIN signals_db) = 2
    /\ DOMAIN signals_db \subseteq tracker.active_signals


(***************************************************************************)
(* analyze_volume_spike called on volumes                                  *)
(***************************************************************************)
\* current volume, trailing average and volume one hour ago of a snapshot
CurrentVolumes == {0, 150, 199, 200, 499, 500, 799, 800, 1000}
AverageVolumes == {0, 100, 200}
HourAgoVolumes == {0, 100, 250, 400, 500}
\* the average is that of the last twelve 5-minute volumes, the current one
\* and the one of an hour ago among them
Klines(c, a, h) == c + h <= 12 * a

VolumeInit ==
    /\ clock = 0
    /\ bot = BotStarted
    /\ pool = PoolIdle
    /\ min_score = 80
    /\ signals_history = EmptyMap
    /\ results = <<>>
    /\ \E c \in CurrentVolumes, a \in AverageVolumes, h \in HourAgoVolumes :
          /\ Klines(c, a, h)
          /\ coin_data = [Neutral EXCEPT !.volume_current = c, !.volume_avg = a, !.volume_1h_ago = h]
    /\ ConfluenceIdle /\ ScannerIdle /\ NotifierIdle /\ TrackerIdle

\* one call of analyze_volume_spike on the volumes of the snapshot
AnalyzeVolumeSpike ==
    /\ results = <<>>
    /\ results' = <<analyze_volume_spike(coin_data.volume_current, coin_data.volume_avg,
                                         coin_data.volume_1h_ago, clock)>>
    /\ UNCHANGED <<pool, bot, clock, min_score, signals_history, coin_data, confluenceVars,
                   scannerVars, notifierVars, trackerVars>>

SpecVolume == VolumeInit /\ [][AnalyzeVolumeSpike]_vars

\* C33: analyze_volume_spike gives no signal when the trailing average is 0
\* or current / average < 2; otherwise exactly one signal: EXTREME_VOLUME_SPIKE
\* with 95 from a ratio of 8, VOLUME_SPIKE with 75 from 5, ELEVATED_VOLUME with
\* 50 from 2, and 10 more, capped at 100, when current / max(hour ago, 1) > 2.
\* (Strengths are in tenths.)
Thm_C33_VolumeTiers ==
    results # <<>> =>
        LET c == coin_data.volume_current
            a == coin_data.volume_avg
            h == IF coin_data.volume_1h_ago > 1 THEN coin_data.volume_1h_ago ELSE 1
            r == results[1]
            base == IF c >= 8 * a THEN 950 ELSE IF c >= 5 * a THEN 750 ELSE 500
            kind == IF c >= 8 * a THEN "EXTREME_VOLUME_SPIKE"
                    ELSE IF c >= 5 * a THEN "VOLUME_SPIKE" ELSE "ELEVATED_VOLUME"
            plus == IF c > 2 * h THEN base + 100 ELSE base
        IN  IF a = 0 \/ c < 2 * a
              THEN r = <<>>
              ELSE /\ Len(r) = 1
                   /\ r[1].signal_type = kind
                   /\ r[1].strength = IF plus > 1000 THEN 1000 ELSE plus

\* a ratio of exactly 8 with an acceleration of exactly 2: 95 and no bonus
Wit_C33_ExtremeWithoutBonus ==
    /\ results # <<>>
    /\ coin_data.volume_current = 800 /\ coin_data.volume_avg = 100
    /\ coin_data.volume_1h_ago = 400
    /\ results[1] # <<>>
    /\ results[1][1].strength = 950


\* the sample k of the record id is unset and its offset has elapsed
Awaited(id, k) ==
    /\ id \in DOMAIN signals_db
    /\ signals_db[id].price[k] = None
    /\ clock - signals_db[id].timestamp >= k * 60
Written(id, k) == id \in DOMAIN signals_db /\ signals_db[id].price[k] # None
\* a call of update_signal_price that wrote no sample: its fetch failed
FetchFailedStep ==
    /\ tracker.todo # <<>>
    /\ tracker'.todo = Tail(tracker.todo)
    /\ ~(Head(tracker.todo)[1] \in DOMAIN signals_db'
         /\ signals_db'[Head(tracker.todo)[1]].price[Head(tracker.todo)[2]] # None)

Alive == {i \in DOMAIN tracker.threads : is_alive(tracker.threads, i)}

\* C35: after any sequence of start_background_tracking and
\* stop_background_tracking calls at most one tracker loop thread is alive.
Thm_C35_AtMostOneTrackerThread == Cardinality(Alive) <= 1

\* a start that found the thread of before the stop still alive and made no
\* second one, and a later start that made the second thread after the first ended
Wit_C35_SecondThreadAfterFirstEnded ==
    /\ Len(tracker.threads) = 2
    /\ tracker.threads[1].pc = "ended"
    /\ tracker.threads[2].pc = "sleep"
    /\ tracker.last_call = "start_skipped"

\* C36: whenever start_background_tracking has returned and
\* stop_background_tracking has not been called since, a tracker loop is
\* running with tracking enabled.
Cex_C36_StartLeavesLoopRunning ==
    tracker.last_call \in {"start", "start_skipped"} =>
        /\ tracker.tracking_enabled
        /\ Alive # {}


\* the samples written so far for a record
WrittenSamples(record) == {k \in Intervals : record.price[k] # None}
PctEQ(a, b) == a.num * b.den = b.num * a.den

\* C37: for every record max_gain is the greatest and max_loss the least of
\* the percent changes of the samples written so far, both are unset exactly
\* when no sample has been written, and max_loss <= max_gain when set.
Thm_C37_MaxGainLossOfSamples ==
    \A id \in DOMAIN signals_db :
        LET record == signals_db[id]
            written == WrittenSamples(record)
        IN  /\ (record.max_gain = None) <=> (written = {})
            /\ (record.max_loss = None) <=> (written = {})
            /\ written # {} =>
                  /\ \E k \in written : PctEQ(record.change[k][1], record.max_gain[1])
                  /\ \A k \in written : ~(record.change[k][1].num * record.max_gain[1].den
                                            > record.max_gain[1].num * record.change[k][1].den)
                  /\ \E k \in written : PctEQ(record.change[k][1], record.max_loss[1])
                  /\ \A k \in written : ~(record.change[k][1].num * record.max_loss[1].den
                                            < record.max_loss[1].num * record.change[k][1].den)
                  /\ record.max_loss[1].num * record.max_gain[1].den
                        <= record.max_gain[1].num * record.max_loss[1].den

\* three samples written, a loss first: max_loss below 0 and max_gain above
Wit_C37_LossThenGain ==
    \E id \in DOMAIN signals_db :
        /\ Cardinality(WrittenSamples(signals_db[id])) >= 3
        /\ signals_db[id].change[5][1].num < 0
        /\ signals_db[id].max_loss[1].num < 0
        /\ signals_db[id].max_gain[1].num > 0


\* the alerts for coin c that went out in this step
NewAlerts(c) == {i \in Len(delivered) + 1 .. Len(delivered') : delivered'[i].coin = c}

\* C38: the cooldown of a symbol starts only on a successful send: a call
\* that sends no alert for a symbol, its send having failed included, leaves
\* the sent-record of the symbol as it was, so that the symbol is as eligible
\* as before; a call that sends one records the time of the send.
Thm_C38_CooldownOnlyOnSuccess ==
    [][\A c \in NotifyCoins :
          /\ NewAlerts(c) = {} =>
                /\ (c \in DOMAIN sent_signals') <=> (c \in DOMAIN sent_signals)
                /\ c \in DOMAIN sent_signals => sent_signals'[c] = sent_signals[c]
          /\ NewAlerts(c) # {} =>
                c \in DOMAIN sent_signals' /\ sent_signals'[c] = clock]_vars

\* the only Decision of the last batch was due and within max_notify, and
\* its send failed: no alert went out and no cooldown runs for its symbol
Wit_C38_FailedSendStaysEligible ==
    /\ Len(batch.signals) = 1
    /\ batch.max_notify >= 1
    /\ batch.signals[1].coin \notin DOMAIN sent_signals
    /\ \E c \in DOMAIN sent_signals : c # batch.signals[1].coin
    /\ clock = 900


\* every Decision of the cycle is in the store after the step, as record_signal
\* builds it
AllRecorded ==
    \A i \in 1..Len(scan.pump_signals) :
        LET id == signal_id(scan.pump_signals[i])
        IN  /\ id \in DOMAIN signals_db'
            /\ signals_db'[id] = SignalRecord(id, scan.pump_signals[i])
\* the step in which handle_pump_signals got as far as notify_signals_batch
NotifyCalled ==
    /\ scan.pc = "returned" /\ scan'.pc = "handled"
    /\ scan.pump_signals # <<>>
    /\ batch'.signals = scan.pump_signals

\* C39: in every cycle that yields Decisions all of them are recorded in the
\* outcome store before a notification of the cycle is sent; a failure while
\* notifying leaves the recorded Decisions in the store unaltered, and the
\* scan loop goes on.
Thm_C39_RecordedBeforeNotified ==
    [][ /\ delivered' # delivered => AllRecorded
        /\ NotifyCalled => AllRecorded
        /\ (scan.pc = "returned" /\ scan'.pc = "handled") =>
              (bot' = bot /\ bot.pc = "scanning" /\ bot.running) ]_vars

\* a cycle with two Decisions whose sends both failed: both are recorded, no
\* alert went out, the loop is on its way to the next cycle
Wit_C39_BothRecordedNoneSent ==
    /\ scan.pc = "handled"
    /\ bot.pc = "scanning"
    /\ Len(scan.pump_signals) = 2
    /\ batch.signals = scan.pump_signals
    /\ delivered = <<>>
    /\ \A i \in 1..2 : signal_id(scan.pump_signals[i]) \in DOMAIN signals_db

====
